---- MODULE Spec2Model ----
(***************************************************************************)
(* notion-sync-tools: the transport client (make_api_request, pagination,   *)
(* batched block upload, deletion), upload_to_notion with its metadata      *)
(* envelope, and bulk_upload, as a state machine; the converters (inline     *)
(* formatter, block mapper, table split, decoder) as operators, each with   *)
(* a specification that draws its inputs from bounded sets and applies it.  *)
(*                                                                          *)
(* Text is a sequence of one-character strings, so that the string          *)
(* operations of the source (startswith, split, strip) are computed as the  *)
(* source computes them.                                                    *)
(***************************************************************************)
EXTENDS Integers, Sequences, FiniteSets, TLC

(* ------------------------------ bounds --------------------------------- *)
\* largest configured retry_attempts
MaxAttempts == 2
\* largest configured max_blocks_per_request
MaxCap == 2
\* largest number of blocks the encoder yields for one document
MaxBlocks == 3
\* page_size of the child-block listing (100 in the requests of the source)
PageSize == 1
\* largest number of child blocks a remote page starts with
MaxRemote == 2
\* largest number of markdown files in the directory of a bulk run
MaxFiles == 2

(* --------------------------- program constants -------------------------- *)
\* has_notion_page_id scans lines[1:20]
ScanLimit == 20

(* ------------------------------ text ----------------------------------- *)
NL == "\n"
Min(a, b) == IF a < b THEN a ELSE b
Max(a, b) == IF a > b THEN a ELSE b

\* s[from:] of Python, from 0-based
Drop(s, n) == SubSeq(s, n + 1, Len(s))
\* s[:n]
Take(s, n) == SubSeq(s, 1, Min(n, Len(s)))

\* str.startswith
startswith(s, p) == Len(s) >= Len(p) /\ SubSeq(s, 1, Len(p)) = p

\* str.find(sub): the 0-based index of the first occurrence, -1 when absent
find(s, sub) ==
  LET hits == {k \in 0..(Len(s) - Len(sub)) : SubSeq(s, k + 1, k + Len(sub)) = sub}
  IN IF hits = {} THEN -1 ELSE CHOOSE k \in hits : \A m \in hits : k <= m

\* str.split(sep, maxsplit): at most maxsplit cuts, left to right
RECURSIVE split_max(_, _, _)
split_max(s, sep, maxsplit) ==
  LET k == find(s, sep)
  IN IF maxsplit = 0 \/ k = -1 THEN <<s>>
     ELSE <<Take(s, k)>> \o split_max(Drop(s, k + Len(sep)), sep, maxsplit - 1)

\* str.split(sep): every occurrence cuts
split(s, sep) == split_max(s, sep, Len(s) + 1)

IsSpace(c) == c \in {" ", NL}

\* str.lstrip(chars)
RECURSIVE lstrip_chars(_, _)
lstrip_chars(s, chars) ==
  IF s # <<>> /\ Head(s) \in chars THEN lstrip_chars(Tail(s), chars) ELSE s

RECURSIVE rstrip_chars(_, _)
rstrip_chars(s, chars) ==
  IF s # <<>> /\ s[Len(s)] \in chars THEN rstrip_chars(Take(s, Len(s) - 1), chars) ELSE s

\* str.strip(): whitespace off both ends
strip(s) == rstrip_chars(lstrip_chars(s, {" ", NL}), {" ", NL})

\* a dict of Python, in insertion order: a sequence of <<key, value>>
RECURSIVE dict_index(_, _, _)
dict_index(d, key, k) ==
  IF k > Len(d) THEN 0 ELSE IF d[k][1] = key THEN k ELSE dict_index(d, key, k + 1)
dict_has(d, key) == dict_index(d, key, 1) # 0
dict_get(d, key, default) ==
  IF dict_has(d, key) THEN d[dict_index(d, key, 1)][2] ELSE default
\* d[key] = value: a known key keeps its place, a new one goes last
dict_set(d, key, value) ==
  IF dict_has(d, key)
  THEN [d EXCEPT ![dict_index(d, key, 1)] = <<key, value>>]
  ELSE Append(d, <<key, value>>)

RECURSIVE Flatten(_)
Flatten(ss) == IF ss = <<>> THEN <<>> ELSE Head(ss) \o Flatten(Tail(ss))

(* ------------------------- metadata envelope ---------------------------- *)
Marker == <<"-", "-", "-", NL>>
K_notion_page_id == <<"n","o","t","i","o","n","_","p","a","g","e","_","i","d">>
K_notion_url == <<"n","o","t","i","o","n","_","u","r","l">>
K_title == <<"t","i","t","l","e">>
K_uploaded == <<"u","p","l","o","a","d","e","d">>

\* the frontmatter loop of parse_frontmatter over the lines of the envelope
RECURSIVE frontmatter_lines(_, _)
frontmatter_lines(lines, d) ==
  IF lines = <<>> THEN d
  ELSE LET line == Head(lines)
           kv == split_max(line, <<":">>, 1)
       IN frontmatter_lines(Tail(lines),
            IF find(line, <<":">>) # -1
            THEN dict_set(d, strip(kv[1]), strip(kv[2]))
            ELSE d)

\* parse_frontmatter(content) -> (frontmatter, content_without_frontmatter)
parse_frontmatter(content) ==
  LET parts == split_max(content, Marker, 2)
  IN IF startswith(content, Marker) /\ Len(parts) >= 3
     THEN [frontmatter |-> frontmatter_lines(split(parts[2], <<NL>>), <<>>),
           content |-> lstrip_chars(parts[3], {NL})]
     ELSE [frontmatter |-> <<>>, content |-> content]

\* the writer of upload_to_notion: marker, "key: value" lines, marker, blank, body
RECURSIVE frontmatter_text(_)
frontmatter_text(d) ==
  IF d = <<>> THEN <<>>
  ELSE Head(d)[1] \o <<":", " ">> \o Head(d)[2] \o <<NL>> \o frontmatter_text(Tail(d))
write_frontmatter(d, content) ==
  Marker \o frontmatter_text(d) \o Marker \o <<NL>> \o content

\* the scan of has_notion_page_id over lines[1:20]
RECURSIVE scan_page_id(_)
scan_page_id(lines) ==
  IF lines = <<>> THEN FALSE
  ELSE IF startswith(Head(lines), <<"-", "-", "-">>) THEN FALSE
  ELSE IF startswith(Head(lines), K_notion_page_id \o <<":">>) THEN TRUE
  ELSE scan_page_id(Tail(lines))

\* has_notion_page_id(file_path), on the text of the file
has_notion_page_id(content) ==
  /\ startswith(content, Marker)
  /\ scan_page_id(SubSeq(split(content, <<NL>>), 2, Min(ScanLimit, Len(split(content, <<NL>>)))))

(* ------------------------------ state ---------------------------------- *)
VARIABLES
  cfg,      \* Config: retry_attempts, max_blocks_per_request
  remote,   \* the service: remote[p] is the child-block list of page p
  next_id,  \* the service: the id the next created block gets
  rq,       \* the call of make_api_request in progress
  uo,       \* the urlopen of the script in progress (the script has no make_api_request)
  f,        \* the frame of the transport function running
  ops,      \* number of runs of the program started (each behaviour is one run)
  main,     \* the program run: its entry point
  files,    \* the markdown files: files[k] is the text of file k
  enc,      \* enc[k]: the number of blocks markdown_to_notion_blocks makes of file k
  u,        \* the frame of upload_to_notion
  b,        \* the frame of bulk_upload
  cv        \* the conversion in progress (the pure functions of the converters)

vars == <<cfg, remote, next_id, rq, uo, f, ops, main, files, enc, u, b, cv>>

(* ----------------------------- the service ------------------------------ *)
\* block types the deletion routine of the script preserves
PROTECTED_BLOCK_TYPES == {"child_page", "child_database", "synced_block"}

NoReq == [method |-> "none", page |-> 0, block |-> 0, cursor |-> 0, children |-> <<>>]
NoResult == [id |-> 0, results |-> <<>>, has_more |-> FALSE, next_cursor |-> 0]

RemoteIds == UNION {{remote[p][k].id : k \in 1..Len(remote[p])} : p \in 1..Len(remote)}

\* one page of the child-block listing: page_size blocks from the cursor on
Listing(children, cursor) ==
  LET first == IF cursor = 0 THEN 1 ELSE cursor
      last == Min(first + PageSize - 1, Len(children))
  IN [id |-> 0,
      results |-> SubSeq(children, first, last),
      has_more |-> last < Len(children),
      next_cursor |-> IF last < Len(children) THEN last + 1 ELSE 0]

\* bound: cursorless pages the service gives in one drain
MaxStalls == 1

\* a page of the listing that reports has_more and carries no next_cursor
IsStalled(res) == res.has_more /\ res.next_cursor = 0
Stalls(pages) == Cardinality({k \in DOMAIN pages : IsStalled(pages[k])})
\* the service answers the listing request r with such a page
CanStall(r, pages) ==
  /\ r.method = "GET" /\ r.page \in 1..Len(remote)
  /\ Listing(remote[r.page], r.cursor).has_more
  /\ Stalls(pages) < MaxStalls
StalledListing(r) == [Listing(remote[r.page], r.cursor) EXCEPT !.next_cursor = 0]

\* the blocks the service makes of the children of an append request
RECURSIVE NewBlocks(_, _)
NewBlocks(children, id) ==
  IF children = <<>> THEN <<>>
  ELSE <<[id |-> id, type |-> "paragraph", src |-> Head(children)]>>
       \o NewBlocks(Tail(children), id + 1)

RECURSIVE Without(_, _)
Without(children, id) ==
  IF children = <<>> THEN <<>>
  ELSE IF Head(children).id = id THEN Without(Tail(children), id)
  ELSE <<Head(children)>> \o Without(Tail(children), id)

\* whether the service can answer r with success
Serviceable(r) ==
  CASE r.method = "POST" -> TRUE
    [] r.method = "GET" -> r.page \in 1..Len(remote)
    [] r.method = "PATCH" -> r.page \in 1..Len(remote)
    [] r.method = "DELETE" -> r.block \in RemoteIds
    [] OTHER -> FALSE

\* the pages of the service once it has carried out r
Served(r) ==
  CASE r.method = "POST" -> Append(remote, <<>>)
    [] r.method = "PATCH" ->
         [remote EXCEPT ![r.page] = @ \o NewBlocks(r.children, next_id)]
    [] r.method = "DELETE" -> [p \in 1..Len(remote) |-> Without(remote[p], r.block)]
    [] OTHER -> remote

\* its response
Response(r) ==
  CASE r.method = "POST" -> [NoResult EXCEPT !.id = Len(remote) + 1]
    [] r.method = "PATCH" -> [NoResult EXCEPT !.results = NewBlocks(r.children, next_id)]
    [] r.method = "GET" -> Listing(remote[r.page], r.cursor)
    [] OTHER -> NoResult

Mutating(r) == r.method \in {"POST", "PATCH", "DELETE"}

\* the responses the service may give to r
Responses(r) ==
  {Response(r)} \cup (IF r.method = "GET" /\ r.page \in 1..Len(remote)
                         /\ Listing(remote[r.page], r.cursor).has_more
                      THEN {StalledListing(r)} ELSE {})

\* the service carries out r
Serve(r) ==
  /\ remote' = Served(r)
  /\ next_id' = IF r.method = "PATCH" THEN next_id + Len(r.children) ELSE next_id

\* the service answers r; it may have carried r out before an answer that is an error
\* (a 5xx, a lost connection), never before a 429 or a 4xx
Answer(r, status, applied) ==
  /\ status = "ok" => (applied /\ Serviceable(r))
  /\ applied => Serviceable(r)
  /\ (applied /\ status # "ok") => (Mutating(r) /\ status \in {"5xx", "net"})
  /\ IF applied THEN Serve(r) ELSE UNCHANGED <<remote, next_id>>

Statuses == {"ok", "429", "4xx", "5xx", "net"}
\* the statuses urllib raises as HTTPError
HTTPErrors == {"429", "4xx", "5xx"}

(* --------------------------- make_api_request --------------------------- *)
NoCall == [state |-> "IDLE", attempt |-> 0, last_error |-> "none", req |-> NoReq,
           result |-> NoResult,
           \* history: the requests sent in this call; whether every answer so far
           \* was a 429; the time.sleep under way, in units of retry_delay
           tried |-> 0, only_429 |-> TRUE, wait |-> 0]

\* the loop going once round too often
LoopContinues_inclusive(a, n) == a <= n
\* for attempt in range(retry_attempts)
LoopContinues(a, n) == a < n
\* the same wait after every rate-limit answer
RateLimitWait_fixed(a) == 1
\* wait_time = retry_delay * (attempt + 1), in units of retry_delay
RateLimitWait(a) == a + 1
\* if attempt < retry_attempts - 1
HasBudget(a, n) == a < n - 1

\* entering make_api_request(url, ..., method, data)
CallApi(r) == rq' = [NoCall EXCEPT !.req = r]

\* the caller has taken the response or the exception
Consume == rq' = NoCall

\* the head of the loop with an attempt left: urlopen(req)
make_api_request_send ==
  /\ rq.req # NoReq
  /\ rq.state \in {"IDLE", "RETRY_WAIT"}
  /\ LoopContinues(rq.attempt, cfg.retry_attempts)
  /\ rq' = [rq EXCEPT !.state = "REQUESTING", !.tried = @ + 1, !.wait = 0]
  /\ UNCHANGED <<cfg, remote, next_id, uo, f, ops, main, files, enc, u, b, cv>>

\* the loop ran out: raise last_error, or RuntimeError
make_api_request_exhausted ==
  /\ rq.req # NoReq
  /\ rq.state \in {"IDLE", "RETRY_WAIT"}
  /\ ~LoopContinues(rq.attempt, cfg.retry_attempts)
  /\ rq' = [rq EXCEPT !.state = "FAILED", !.wait = 0,
                      !.last_error = IF @ = "none" THEN "RuntimeError" ELSE @]
  /\ UNCHANGED <<cfg, remote, next_id, uo, f, ops, main, files, enc, u, b, cv>>

\* return json.loads(response.read())
make_api_request_ok ==
  /\ rq.state = "REQUESTING"
  /\ Answer(rq.req, "ok", TRUE)
  /\ rq' = [rq EXCEPT !.state = "SUCCESS", !.result = Response(rq.req),
                      !.only_429 = FALSE]
  /\ UNCHANGED <<cfg, uo, f, ops, main, files, enc, u, b, cv>>

\* the same return, of a listing page that has no next_cursor
make_api_request_ok_no_cursor ==
  /\ rq.state = "REQUESTING"
  /\ CanStall(rq.req, f.pages_seen)
  /\ rq' = [rq EXCEPT !.state = "SUCCESS", !.result = StalledListing(rq.req),
                      !.only_429 = FALSE]
  /\ UNCHANGED <<cfg, remote, next_id, uo, f, ops, main, files, enc, u, b, cv>>

\* except HTTPError with e.code == 429: sleep retry_delay * (attempt + 1), continue
make_api_request_rate_limited ==
  /\ rq.state = "REQUESTING"
  /\ Answer(rq.req, "429", FALSE)
  /\ rq' = [rq EXCEPT !.state = "RETRY_WAIT",
                      !.last_error = "429",
                      !.wait = RateLimitWait(rq.attempt),
                      !.attempt = @ + 1]
  /\ UNCHANGED <<cfg, uo, f, ops, main, files, enc, u, b, cv>>

\* the two last branches of the loop: sleep retry_delay and continue, or raise
RetryOrRaise(c, status, n) ==
  IF HasBudget(c.attempt, n)
  THEN [c EXCEPT !.state = "RETRY_WAIT",
                 !.last_error = status,
                 !.only_429 = FALSE,
                 !.wait = 1,
                 !.attempt = @ + 1]
  ELSE [c EXCEPT !.state = "FAILED",
                 !.last_error = status,
                 !.only_429 = FALSE]

\* except HTTPError with another code
make_api_request_http_error ==
  /\ rq.state = "REQUESTING"
  /\ \E status \in {"4xx", "5xx"}, applied \in BOOLEAN :
       /\ Answer(rq.req, status, applied)
       /\ rq' = RetryOrRaise(rq, status, cfg.retry_attempts)
  /\ UNCHANGED <<cfg, uo, f, ops, main, files, enc, u, b, cv>>

\* except Exception (no connection, a timeout, a lost response)
make_api_request_exception ==
  /\ rq.state = "REQUESTING"
  /\ \E applied \in BOOLEAN :
       /\ Answer(rq.req, "net", applied)
       /\ rq' = RetryOrRaise(rq, "net", cfg.retry_attempts)
  /\ UNCHANGED <<cfg, uo, f, ops, main, files, enc, u, b, cv>>

(* ------------------- urlopen as the script calls it --------------------- *)
NoUrlopen == [state |-> "none", req |-> NoReq, result |-> NoResult, error |-> "none"]

Urlopen(r) == uo' = [NoUrlopen EXCEPT !.state = "pending", !.req = r]

\* the response, or the exception urlopen raises
urlopen_answer ==
  /\ uo.state = "pending"
  /\ \E status \in Statuses, applied \in BOOLEAN :
       /\ Answer(uo.req, status, applied)
       /\ uo' = IF status = "ok"
                THEN [uo EXCEPT !.state = "ok", !.result = Response(uo.req)]
                ELSE [uo EXCEPT !.state = "raised", !.error = status]
  /\ UNCHANGED <<cfg, rq, f, ops, main, files, enc, u, b, cv>>

\* the response is a listing page that has no next_cursor
urlopen_answer_no_cursor ==
  /\ uo.state = "pending"
  /\ CanStall(uo.req, f.pages_seen)
  /\ uo' = [uo EXCEPT !.state = "ok", !.result = StalledListing(uo.req)]
  /\ UNCHANGED <<cfg, remote, next_id, rq, f, ops, main, files, enc, u, b, cv>>

(* -------------------------- transport functions ------------------------- *)
NoFrame == [fn |-> "none", pc |-> "none", page_id |-> 0, blocks |-> <<>>, i |-> 0,
            total_uploaded |-> 0, all_blocks |-> <<>>, start_cursor |-> 0, j |-> 0,
            deleted |-> 0, preserved |-> 0, preserve_children |-> FALSE,
            new_page |-> 0, error |-> "none",
            \* history
            sent |-> <<>>, events |-> <<>>, cursors |-> <<>>, pages_seen |-> <<>>,
            delete_requests |-> <<>>, ignored |-> 0]

Running(name, pc) == f.fn = name /\ f.pc = pc

(* create_notion_page *)
\* entering create_notion_page: the POST of the page
Call_create_notion_page ==
  /\ f' = [NoFrame EXCEPT !.fn = "create_notion_page", !.pc = "call"]
  /\ CallApi([NoReq EXCEPT !.method = "POST"])

\* return result['id'], result['url']
create_notion_page_return ==
  /\ Running("create_notion_page", "call")
  /\ rq.state = "SUCCESS"
  /\ f' = [f EXCEPT !.pc = "returned", !.new_page = rq.result.id]
  /\ Consume
  /\ UNCHANGED <<cfg, remote, next_id, uo, ops, main, files, enc, u, b, cv>>

create_notion_page_raise ==
  /\ Running("create_notion_page", "call")
  /\ rq.state = "FAILED"
  /\ f' = [f EXCEPT !.pc = "raised", !.error = rq.last_error]
  /\ Consume
  /\ UNCHANGED <<cfg, remote, next_id, uo, ops, main, files, enc, u, b, cv>>

(* upload_blocks_to_page *)
\* the slice taken one block too early
BatchAt_overlapping(bs, k, max_blocks) == SubSeq(bs, Max(k, 1), Min(k + max_blocks, Len(bs)))
\* blocks[i:i + max_blocks]
BatchAt(bs, k, max_blocks) == SubSeq(bs, k + 1, Min(k + max_blocks, Len(bs)))
\* if i + max_blocks < len(blocks)
NeedsPacing(k, max_blocks, n) == k + max_blocks < n

\* entering upload_blocks_to_page(token, api_version, page_id, blocks, config)
Call_upload_blocks_to_page(p, bs) ==
  f' = [NoFrame EXCEPT !.fn = "upload_blocks_to_page", !.pc = "loop",
                       !.page_id = p, !.blocks = bs]

\* the loop body up to the call of make_api_request
upload_blocks_to_page_batch ==
  /\ Running("upload_blocks_to_page", "loop")
  /\ f.i < Len(f.blocks)
  /\ LET batch == BatchAt(f.blocks, f.i, cfg.max_blocks_per_request)
     IN /\ CallApi([NoReq EXCEPT !.method = "PATCH", !.page = f.page_id,
                                 !.children = batch])
        /\ f' = [f EXCEPT !.pc = "call",
                          !.sent = Append(@, batch),
                          !.events = Append(@, "request")]
  /\ UNCHANGED <<cfg, remote, next_id, uo, ops, main, files, enc, u, b, cv>>

\* the response of a batch: count it, then sleep rate_limit_delay unless it was the last
upload_blocks_to_page_result ==
  /\ Running("upload_blocks_to_page", "call")
  /\ rq.state = "SUCCESS"
  /\ f' = IF NeedsPacing(f.i, cfg.max_blocks_per_request, Len(f.blocks))
          THEN [f EXCEPT !.pc = "sleep",
                         !.total_uploaded = @ + Len(rq.result.results),
                         !.events = Append(@, "sleep")]
          ELSE [f EXCEPT !.pc = "loop",
                         !.total_uploaded = @ + Len(rq.result.results),
                         !.i = @ + cfg.max_blocks_per_request]
  /\ Consume
  /\ UNCHANGED <<cfg, remote, next_id, uo, ops, main, files, enc, u, b, cv>>

\* time.sleep(config.rate_limit_delay) is over: the next i of the range
upload_blocks_to_page_slept ==
  /\ Running("upload_blocks_to_page", "sleep")
  /\ f' = [f EXCEPT !.pc = "loop", !.i = @ + cfg.max_blocks_per_request]
  /\ UNCHANGED <<cfg, remote, next_id, rq, uo, ops, main, files, enc, u, b, cv>>

\* make_api_request raised: the exception leaves upload_blocks_to_page
upload_blocks_to_page_raise ==
  /\ Running("upload_blocks_to_page", "call")
  /\ rq.state = "FAILED"
  /\ f' = [f EXCEPT !.pc = "raised", !.error = rq.last_error]
  /\ Consume
  /\ UNCHANGED <<cfg, remote, next_id, uo, ops, main, files, enc, u, b, cv>>

\* the range is over: return total_uploaded
upload_blocks_to_page_return ==
  /\ Running("upload_blocks_to_page", "loop")
  /\ f.i >= Len(f.blocks)
  /\ f' = [f EXCEPT !.pc = "returned"]
  /\ UNCHANGED <<cfg, remote, next_id, rq, uo, ops, main, files, enc, u, b, cv>>

(* the pagination loop shared in shape by get_all_blocks and delete_all_blocks *)
\* url of the listing, with &start_cursor= when start_cursor is set
ListRequest(p, cursor) == [NoReq EXCEPT !.method = "GET", !.page = p, !.cursor = cursor]
\* if result.get('has_more')
DrainContinues(res) == res.has_more
\* start_cursor = result.get('next_cursor')
NextCursor(res) == res.next_cursor

(* get_all_blocks *)
Call_get_all_blocks(p) ==
  f' = [NoFrame EXCEPT !.fn = "get_all_blocks", !.pc = "drain", !.page_id = p]

\* the top of while True: the request of the next page of the listing
get_all_blocks_list ==
  /\ Running("get_all_blocks", "drain")
  /\ CallApi(ListRequest(f.page_id, f.start_cursor))
  /\ f' = [f EXCEPT !.pc = "drain_call",
                    !.cursors = Append(@, f.start_cursor),
                    !.events = Append(@, "request")]
  /\ UNCHANGED <<cfg, remote, next_id, uo, ops, main, files, enc, u, b, cv>>

\* all_blocks.extend(results); has_more: take the cursor and sleep; else return
get_all_blocks_listed ==
  /\ Running("get_all_blocks", "drain_call")
  /\ rq.state = "SUCCESS"
  /\ f' = IF DrainContinues(rq.result)
          THEN [f EXCEPT !.pc = "drain_sleep",
                         !.all_blocks = @ \o rq.result.results,
                         !.start_cursor = NextCursor(rq.result),
                         !.pages_seen = Append(@, rq.result),
                         !.events = Append(@, "sleep")]
          ELSE [f EXCEPT !.pc = "returned",
                         !.all_blocks = @ \o rq.result.results,
                         !.pages_seen = Append(@, rq.result)]
  /\ Consume
  /\ UNCHANGED <<cfg, remote, next_id, uo, ops, main, files, enc, u, b, cv>>

\* time.sleep(config.rate_limit_delay) is over
get_all_blocks_slept ==
  /\ Running("get_all_blocks", "drain_sleep")
  /\ f' = [f EXCEPT !.pc = "drain"]
  /\ UNCHANGED <<cfg, remote, next_id, rq, uo, ops, main, files, enc, u, b, cv>>

get_all_blocks_raise ==
  /\ Running("get_all_blocks", "drain_call")
  /\ rq.state = "FAILED"
  /\ f' = [f EXCEPT !.pc = "raised", !.error = rq.last_error]
  /\ Consume
  /\ UNCHANGED <<cfg, remote, next_id, uo, ops, main, files, enc, u, b, cv>>

(* delete_all_blocks of markdown_to_notion.py *)
Call_delete_all_blocks(p) ==
  f' = [NoFrame EXCEPT !.fn = "delete_all_blocks", !.pc = "drain", !.page_id = p]

delete_all_blocks_list ==
  /\ Running("delete_all_blocks", "drain")
  /\ CallApi(ListRequest(f.page_id, f.start_cursor))
  /\ f' = [f EXCEPT !.pc = "drain_call",
                    !.cursors = Append(@, f.start_cursor),
                    !.events = Append(@, "request")]
  /\ UNCHANGED <<cfg, remote, next_id, uo, ops, main, files, enc, u, b, cv>>

\* all_blocks.extend(results); has_more: take the cursor; else go on to the deletions
delete_all_blocks_listed ==
  /\ Running("delete_all_blocks", "drain_call")
  /\ rq.state = "SUCCESS"
  /\ f' = IF DrainContinues(rq.result)
          THEN [f EXCEPT !.pc = "drain",
                         !.all_blocks = @ \o rq.result.results,
                         !.start_cursor = NextCursor(rq.result),
                         !.pages_seen = Append(@, rq.result)]
          ELSE [f EXCEPT !.pc = "delete",
                         !.all_blocks = @ \o rq.result.results,
                         !.pages_seen = Append(@, rq.result),
                         !.j = 1]
  /\ Consume
  /\ UNCHANGED <<cfg, remote, next_id, uo, ops, main, files, enc, u, b, cv>>

delete_all_blocks_list_raise ==
  /\ Running("delete_all_blocks", "drain_call")
  /\ rq.state = "FAILED"
  /\ f' = [f EXCEPT !.pc = "raised", !.error = rq.last_error]
  /\ Consume
  /\ UNCHANGED <<cfg, remote, next_id, uo, ops, main, files, enc, u, b, cv>>

\* for block in all_blocks: the DELETE of the block
delete_all_blocks_delete ==
  /\ Running("delete_all_blocks", "delete")
  /\ f.j <= Len(f.all_blocks)
  /\ CallApi([NoReq EXCEPT !.method = "DELETE", !.block = f.all_blocks[f.j].id])
  /\ f' = [f EXCEPT !.pc = "delete_call",
                    !.delete_requests = Append(@, f.all_blocks[f.j].id)]
  /\ UNCHANGED <<cfg, remote, next_id, uo, ops, main, files, enc, u, b, cv>>

\* deleted += 1, then time.sleep(config.rate_limit_delay)
delete_all_blocks_deleted ==
  /\ Running("delete_all_blocks", "delete_call")
  /\ rq.state = "SUCCESS"
  /\ f' = [f EXCEPT !.pc = "delete_sleep", !.deleted = @ + 1]
  /\ Consume
  /\ UNCHANGED <<cfg, remote, next_id, uo, ops, main, files, enc, u, b, cv>>

\* except urllib.error.HTTPError: pass, then the sleep
delete_all_blocks_ignored ==
  /\ Running("delete_all_blocks", "delete_call")
  /\ rq.state = "FAILED"
  /\ rq.last_error \in HTTPErrors
  /\ f' = [f EXCEPT !.pc = "delete_sleep", !.ignored = @ + 1]
  /\ Consume
  /\ UNCHANGED <<cfg, remote, next_id, uo, ops, main, files, enc, u, b, cv>>

\* any other exception of make_api_request leaves delete_all_blocks
delete_all_blocks_delete_raise ==
  /\ Running("delete_all_blocks", "delete_call")
  /\ rq.state = "FAILED"
  /\ rq.last_error \notin HTTPErrors
  /\ f' = [f EXCEPT !.pc = "raised", !.error = rq.last_error]
  /\ Consume
  /\ UNCHANGED <<cfg, remote, next_id, uo, ops, main, files, enc, u, b, cv>>

delete_all_blocks_slept ==
  /\ Running("delete_all_blocks", "delete_sleep")
  /\ f' = [f EXCEPT !.pc = "delete", !.j = @ + 1]
  /\ UNCHANGED <<cfg, remote, next_id, rq, uo, ops, main, files, enc, u, b, cv>>

\* return deleted
delete_all_blocks_return ==
  /\ Running("delete_all_blocks", "delete")
  /\ f.j > Len(f.all_blocks)
  /\ f' = [f EXCEPT !.pc = "returned"]
  /\ UNCHANGED <<cfg, remote, next_id, rq, uo, ops, main, files, enc, u, b, cv>>

(* delete_all_blocks of the script markdown-to-notion.py *)
\* protection of nested pages only
IsPreserved_pages_only(block, preserve) == preserve /\ block.type = "child_page"
\* if preserve_children and block_type in PROTECTED_BLOCK_TYPES
IsPreserved(block, preserve) == preserve /\ block.type \in PROTECTED_BLOCK_TYPES

Call_script_delete_all_blocks(p, preserve) ==
  f' = [NoFrame EXCEPT !.fn = "script_delete_all_blocks", !.pc = "drain",
                       !.page_id = p, !.preserve_children = preserve]

script_delete_all_blocks_list ==
  /\ Running("script_delete_all_blocks", "drain")
  /\ Urlopen(ListRequest(f.page_id, f.start_cursor))
  /\ f' = [f EXCEPT !.pc = "drain_call",
                    !.cursors = Append(@, f.start_cursor),
                    !.events = Append(@, "request")]
  /\ UNCHANGED <<cfg, remote, next_id, rq, ops, main, files, enc, u, b, cv>>

script_delete_all_blocks_listed ==
  /\ Running("script_delete_all_blocks", "drain_call")
  /\ uo.state = "ok"
  /\ f' = IF DrainContinues(uo.result)
          THEN [f EXCEPT !.pc = "drain",
                         !.all_blocks = @ \o uo.result.results,
                         !.start_cursor = NextCursor(uo.result),
                         !.pages_seen = Append(@, uo.result)]
          ELSE [f EXCEPT !.pc = "delete",
                         !.all_blocks = @ \o uo.result.results,
                         !.pages_seen = Append(@, uo.result),
                         !.j = 1]
  /\ uo' = NoUrlopen
  /\ UNCHANGED <<cfg, remote, next_id, rq, ops, main, files, enc, u, b, cv>>

\* the listing is outside any try: every exception leaves the function
script_delete_all_blocks_list_raise ==
  /\ Running("script_delete_all_blocks", "drain_call")
  /\ uo.state = "raised"
  /\ f' = [f EXCEPT !.pc = "raised", !.error = uo.error]
  /\ uo' = NoUrlopen
  /\ UNCHANGED <<cfg, remote, next_id, rq, ops, main, files, enc, u, b, cv>>

\* a protected block: preserved += 1; continue
script_delete_all_blocks_preserve ==
  /\ Running("script_delete_all_blocks", "delete")
  /\ f.j <= Len(f.all_blocks)
  /\ IsPreserved(f.all_blocks[f.j], f.preserve_children)
  /\ f' = [f EXCEPT !.preserved = @ + 1, !.j = @ + 1]
  /\ UNCHANGED <<cfg, remote, next_id, rq, uo, ops, main, files, enc, u, b, cv>>

\* any other block: the DELETE of the block
script_delete_all_blocks_delete ==
  /\ Running("script_delete_all_blocks", "delete")
  /\ f.j <= Len(f.all_blocks)
  /\ ~IsPreserved(f.all_blocks[f.j], f.preserve_children)
  /\ Urlopen([NoReq EXCEPT !.method = "DELETE", !.block = f.all_blocks[f.j].id])
  /\ f' = [f EXCEPT !.pc = "delete_call",
                    !.delete_requests = Append(@, f.all_blocks[f.j].id)]
  /\ UNCHANGED <<cfg, remote, next_id, rq, ops, main, files, enc, u, b, cv>>

\* deleted += 1
script_delete_all_blocks_deleted ==
  /\ Running("script_delete_all_blocks", "delete_call")
  /\ uo.state = "ok"
  /\ f' = [f EXCEPT !.pc = "delete", !.deleted = @ + 1, !.j = @ + 1]
  /\ uo' = NoUrlopen
  /\ UNCHANGED <<cfg, remote, next_id, rq, ops, main, files, enc, u, b, cv>>

\* except urllib.error.HTTPError: pass
script_delete_all_blocks_ignored ==
  /\ Running("script_delete_all_blocks", "delete_call")
  /\ uo.state = "raised"
  /\ uo.error \in HTTPErrors
  /\ f' = [f EXCEPT !.pc = "delete", !.j = @ + 1, !.ignored = @ + 1]
  /\ uo' = NoUrlopen
  /\ UNCHANGED <<cfg, remote, next_id, rq, ops, main, files, enc, u, b, cv>>

script_delete_all_blocks_delete_raise ==
  /\ Running("script_delete_all_blocks", "delete_call")
  /\ uo.state = "raised"
  /\ uo.error \notin HTTPErrors
  /\ f' = [f EXCEPT !.pc = "raised", !.error = uo.error]
  /\ uo' = NoUrlopen
  /\ UNCHANGED <<cfg, remote, next_id, rq, ops, main, files, enc, u, b, cv>>

\* return deleted, preserved
script_delete_all_blocks_return ==
  /\ Running("script_delete_all_blocks", "delete")
  /\ f.j > Len(f.all_blocks)
  /\ f' = [f EXCEPT !.pc = "returned"]
  /\ UNCHANGED <<cfg, remote, next_id, rq, uo, ops, main, files, enc, u, b, cv>>

(* upload_blocks_to_page of the script markdown-to-notion.py *)
Call_script_upload_blocks_to_page(p, bs) ==
  f' = [NoFrame EXCEPT !.fn = "script_upload_blocks_to_page", !.pc = "loop",
                       !.page_id = p, !.blocks = bs]

\* the loop body up to urlopen; the cap is the constant MAX_BLOCKS_PER_REQUEST
script_upload_blocks_to_page_batch ==
  /\ Running("script_upload_blocks_to_page", "loop")
  /\ f.i < Len(f.blocks)
  /\ LET batch == BatchAt(f.blocks, f.i, cfg.max_blocks_per_request)
     IN /\ Urlopen([NoReq EXCEPT !.method = "PATCH", !.page = f.page_id,
                                 !.children = batch])
        /\ f' = [f EXCEPT !.pc = "call",
                          !.sent = Append(@, batch),
                          !.events = Append(@, "request")]
  /\ UNCHANGED <<cfg, remote, next_id, rq, ops, main, files, enc, u, b, cv>>

\* the response of a batch: count it and go on with the next i, without a sleep
script_upload_blocks_to_page_result ==
  /\ Running("script_upload_blocks_to_page", "call")
  /\ uo.state = "ok"
  /\ f' = [f EXCEPT !.pc = "loop",
                    !.total_uploaded = @ + Len(uo.result.results),
                    !.i = @ + cfg.max_blocks_per_request]
  /\ uo' = NoUrlopen
  /\ UNCHANGED <<cfg, remote, next_id, rq, ops, main, files, enc, u, b, cv>>

\* urlopen raised: the exception leaves upload_blocks_to_page
script_upload_blocks_to_page_raise ==
  /\ Running("script_upload_blocks_to_page", "call")
  /\ uo.state = "raised"
  /\ f' = [f EXCEPT !.pc = "raised", !.error = uo.error]
  /\ uo' = NoUrlopen
  /\ UNCHANGED <<cfg, remote, next_id, rq, ops, main, files, enc, u, b, cv>>

\* return total_uploaded
script_upload_blocks_to_page_return ==
  /\ Running("script_upload_blocks_to_page", "loop")
  /\ f.i >= Len(f.blocks)
  /\ f' = [f EXCEPT !.pc = "returned"]
  /\ UNCHANGED <<cfg, remote, next_id, rq, uo, ops, main, files, enc, u, b, cv>>

(* get_all_blocks of the script read-notion-page.py *)
Call_read_get_all_blocks(p) ==
  f' = [NoFrame EXCEPT !.fn = "read_get_all_blocks", !.pc = "drain", !.page_id = p]

read_get_all_blocks_list ==
  /\ Running("read_get_all_blocks", "drain")
  /\ Urlopen(ListRequest(f.page_id, f.start_cursor))
  /\ f' = [f EXCEPT !.pc = "drain_call",
                    !.cursors = Append(@, f.start_cursor),
                    !.events = Append(@, "request")]
  /\ UNCHANGED <<cfg, remote, next_id, rq, ops, main, files, enc, u, b, cv>>

\* all_blocks.extend(blocks); has_more: take the cursor; else break and return all_blocks
read_get_all_blocks_listed ==
  /\ Running("read_get_all_blocks", "drain_call")
  /\ uo.state = "ok"
  /\ f' = IF DrainContinues(uo.result)
          THEN [f EXCEPT !.pc = "drain",
                         !.all_blocks = @ \o uo.result.results,
                         !.start_cursor = NextCursor(uo.result),
                         !.pages_seen = Append(@, uo.result)]
          ELSE [f EXCEPT !.pc = "returned",
                         !.all_blocks = @ \o uo.result.results,
                         !.pages_seen = Append(@, uo.result)]
  /\ uo' = NoUrlopen
  /\ UNCHANGED <<cfg, remote, next_id, rq, ops, main, files, enc, u, b, cv>>

\* except urllib.error.HTTPError: return []  (all_blocks stands for the list returned)
read_get_all_blocks_error ==
  /\ Running("read_get_all_blocks", "drain_call")
  /\ uo.state = "raised"
  /\ uo.error \in HTTPErrors
  /\ f' = [f EXCEPT !.pc = "returned", !.all_blocks = <<>>, !.error = uo.error]
  /\ uo' = NoUrlopen
  /\ UNCHANGED <<cfg, remote, next_id, rq, ops, main, files, enc, u, b, cv>>

\* any other exception leaves get_all_blocks
read_get_all_blocks_raise ==
  /\ Running("read_get_all_blocks", "drain_call")
  /\ uo.state = "raised"
  /\ uo.error \notin HTTPErrors
  /\ f' = [f EXCEPT !.pc = "raised", !.error = uo.error]
  /\ uo' = NoUrlopen
  /\ UNCHANGED <<cfg, remote, next_id, rq, ops, main, files, enc, u, b, cv>>

(* ---------------------------- upload_to_notion -------------------------- *)
Digits == <<"0", "1", "2", "3", "4", "5", "6", "7", "8", "9">>
RECURSIVE Decimal(_)
Decimal(n) == IF n < 10 THEN <<Digits[n + 1]>> ELSE Decimal(n \div 10) \o <<Digits[(n % 10) + 1]>>

\* the id the service gives page k, and the page an id names (0: no page)
PageIdText(k) == <<"p">> \o Decimal(k)
PageOfId(text) ==
  IF \E k \in 1..Len(remote) : PageIdText(k) = text
  THEN CHOOSE k \in 1..Len(remote) : PageIdText(k) = text
  ELSE 0
\* the url the service gives page k
PageUrlText(k) == <<"w", ":", "/">> \o PageIdText(k)
\* f"https://notion.so/{page_id}"
DefaultUrl(id) == <<"h", ":", "/">> \o id
\* md_file.stem
Stem(k) == <<"f">> \o Decimal(k)
\* datetime.now().isoformat()
Now == <<"T">> \o Decimal(ops) \o <<":", "0">>
\* markdown_to_notion_blocks(content, config): enc[k] blocks, told apart by position
Encoded(k) == [n \in 1..enc[k] |-> n]

NoUpload == [pc |-> "none", md_file |-> 0, update_mode |-> FALSE, parent_id |-> FALSE,
             frontmatter |-> <<>>, content |-> <<>>, title |-> <<>>, page_id |-> <<>>,
             page_url |-> <<>>, blocks |-> <<>>, total_uploaded |-> 0, error |-> "none",
             \* history: the text of the file when the call began
             before |-> <<>>]

\* title = frontmatter['title'] if 'title' in frontmatter else md_file.stem
TitleOf(fm, k) == IF dict_has(fm, K_title) THEN dict_get(fm, K_title, <<>>) ELSE Stem(k)

\* entering upload_to_notion(md_file, parent_id, update_mode, config)
Call_upload_to_notion(k, parent, update) ==
  u' = [NoUpload EXCEPT !.pc = "start", !.md_file = k, !.parent_id = parent,
                        !.update_mode = update, !.before = files[k]]

\* the frame once the file is read and parsed, the title made and the body encoded
Parsed(c) ==
  LET parsed == parse_frontmatter(files[c.md_file])
  IN [c EXCEPT !.frontmatter = parsed.frontmatter,
               !.content = parsed.content,
               !.title = TitleOf(parsed.frontmatter, c.md_file),
               !.blocks = Encoded(c.md_file)]

\* update mode up to delete_all_blocks; ValueError without notion_page_id
upload_to_notion_begin_update ==
  /\ u.pc = "start" /\ u.update_mode
  /\ LET c == Parsed(u)
         id == dict_get(c.frontmatter, K_notion_page_id, <<>>)
     IN IF id = <<>>
        THEN /\ u' = [c EXCEPT !.pc = "raised", !.error = "ValueError"]
             /\ UNCHANGED f
        ELSE /\ u' = [c EXCEPT !.pc = "deleting", !.page_id = id]
             /\ Call_delete_all_blocks(PageOfId(id))
  /\ UNCHANGED <<cfg, remote, next_id, rq, uo, ops, main, files, enc, b, cv>>

\* create mode up to create_notion_page; ValueError without parent_id
upload_to_notion_begin_create ==
  /\ u.pc = "start" /\ ~u.update_mode
  /\ LET c == Parsed(u)
     IN IF ~c.parent_id
        THEN /\ u' = [c EXCEPT !.pc = "raised", !.error = "ValueError"]
             /\ UNCHANGED <<f, rq>>
        ELSE /\ u' = [c EXCEPT !.pc = "creating"]
             /\ Call_create_notion_page
  /\ UNCHANGED <<cfg, remote, next_id, uo, ops, main, files, enc, b, cv>>

\* delete_all_blocks returned: upload the new blocks
upload_to_notion_deleted ==
  /\ u.pc = "deleting"
  /\ Running("delete_all_blocks", "returned")
  /\ u' = [u EXCEPT !.pc = "uploading"]
  /\ Call_upload_blocks_to_page(PageOfId(u.page_id), u.blocks)
  /\ UNCHANGED <<cfg, remote, next_id, rq, uo, ops, main, files, enc, b, cv>>

\* the frontmatter create mode writes back
Tagged(c) ==
  dict_set(dict_set(dict_set(dict_set(c.frontmatter,
    K_notion_page_id, c.page_id), K_notion_url, c.page_url), K_title, c.title),
    K_uploaded, Now)

\* the file written as soon as the page exists, before the blocks are uploaded
upload_to_notion_created_writing ==
  /\ u.pc = "creating"
  /\ Running("create_notion_page", "returned")
  /\ LET c == [u EXCEPT !.pc = "uploading",
                        !.page_id = PageIdText(f.new_page),
                        !.page_url = PageUrlText(f.new_page)]
     IN /\ u' = c
        /\ files' = [files EXCEPT ![u.md_file] = write_frontmatter(Tagged(c), c.content)]
  /\ Call_upload_blocks_to_page(f.new_page, u.blocks)
  /\ UNCHANGED <<cfg, remote, next_id, rq, uo, ops, main, enc, b, cv>>

\* create_notion_page returned page_id, page_url: upload the blocks
upload_to_notion_created ==
  /\ u.pc = "creating"
  /\ Running("create_notion_page", "returned")
  /\ u' = [u EXCEPT !.pc = "uploading",
                    !.page_id = PageIdText(f.new_page),
                    !.page_url = PageUrlText(f.new_page)]
  /\ Call_upload_blocks_to_page(f.new_page, u.blocks)
  /\ UNCHANGED <<cfg, remote, next_id, rq, uo, ops, main, files, enc, b, cv>>

\* update mode, the upload returned: page_url from the frontmatter; return
upload_to_notion_updated ==
  /\ u.pc = "uploading" /\ u.update_mode
  /\ Running("upload_blocks_to_page", "returned")
  /\ u' = [u EXCEPT !.pc = "returned",
                    !.total_uploaded = f.total_uploaded,
                    !.page_url = dict_get(u.frontmatter, K_notion_url, DefaultUrl(u.page_id))]
  /\ f' = NoFrame
  /\ UNCHANGED <<cfg, remote, next_id, rq, uo, ops, main, files, enc, b, cv>>

\* create mode, the upload returned: md_file.write_text(updated_content); return
upload_to_notion_write ==
  /\ u.pc = "uploading" /\ ~u.update_mode
  /\ Running("upload_blocks_to_page", "returned")
  /\ u' = [u EXCEPT !.pc = "returned",
                    !.total_uploaded = f.total_uploaded,
                    !.frontmatter = Tagged(u)]
  /\ files' = [files EXCEPT ![u.md_file] = write_frontmatter(Tagged(u), u.content)]
  /\ f' = NoFrame
  /\ UNCHANGED <<cfg, remote, next_id, rq, uo, ops, main, enc, b, cv>>

\* an exception of delete_all_blocks, create_notion_page or upload_blocks_to_page
\* leaves upload_to_notion
upload_to_notion_raise ==
  /\ u.pc \in {"deleting", "creating", "uploading"}
  /\ f.pc = "raised"
  /\ u' = [u EXCEPT !.pc = "raised", !.error = f.error]
  /\ f' = NoFrame
  /\ UNCHANGED <<cfg, remote, next_id, rq, uo, ops, main, files, enc, b, cv>>

(* ------------------------------ bulk_upload ----------------------------- *)
NoBulk == [pc |-> "none", parent_id |-> FALSE, markdown_files |-> <<>>, idx |-> 0,
           uploaded |-> 0, skipped |-> 0, failed |-> 0,
           \* history: the files the loop has taken up, in order
           processed |-> <<>>]

\* the orders in which directory.rglob("*.md") may yield the files
RglobOrders == {o \in [1..Len(files) -> 1..Len(files)] :
                  \A x, y \in 1..Len(files) : o[x] = o[y] => x = y}

\* the filter of find_markdown_files: a file of size 0 is left out (the exclude
\* patterns act on the paths before the files come into the model)
Kept(k) == files[k] # <<>>

RECURSIVE Filtered(_)
Filtered(order) ==
  IF order = <<>> THEN <<>>
  ELSE IF Kept(Head(order)) THEN <<Head(order)>> \o Filtered(Tail(order))
  ELSE Filtered(Tail(order))

\* sorted(markdown_files): paths compare as their numbers do
sorted(list) == SortSeq(list, LAMBDA x, y : x < y)

\* find_markdown_files(directory, exclude_patterns), rglob yielding the files in order
find_markdown_files(order) == sorted(Filtered(order))

\* if idx < len(markdown_files): the sleep between uploads (idx counts from 1)
NeedsUploadPacing(idx, n) == idx < n

\* entering bulk_upload(parent_id, directory, config) up to the loop
Call_bulk_upload(parent) ==
  \E order \in RglobOrders :
    b' = [NoBulk EXCEPT !.pc = "loop", !.parent_id = parent, !.idx = 1,
                        !.markdown_files = find_markdown_files(order)]

\* if has_notion_page_id(file_path): skipped += 1; continue
bulk_upload_skip ==
  /\ b.pc = "loop" /\ b.idx <= Len(b.markdown_files)
  /\ has_notion_page_id(files[b.markdown_files[b.idx]])
  /\ b' = [b EXCEPT !.skipped = @ + 1, !.idx = @ + 1,
                    !.processed = Append(@, b.markdown_files[b.idx])]
  /\ UNCHANGED <<cfg, remote, next_id, rq, uo, f, ops, main, files, enc, u, cv>>

\* otherwise the try: upload_to_notion(file_path, parent_id, update_mode=False)
bulk_upload_upload ==
  /\ b.pc = "loop" /\ b.idx <= Len(b.markdown_files)
  /\ ~has_notion_page_id(files[b.markdown_files[b.idx]])
  /\ b' = [b EXCEPT !.pc = "uploading",
                    !.processed = Append(@, b.markdown_files[b.idx])]
  /\ Call_upload_to_notion(b.markdown_files[b.idx], b.parent_id, FALSE)
  /\ UNCHANGED <<cfg, remote, next_id, rq, uo, f, ops, main, files, enc, cv>>

\* upload_to_notion returned: uploaded += 1, then the sleep unless it was the last file
bulk_upload_uploaded ==
  /\ b.pc = "uploading" /\ u.pc = "returned"
  /\ b' = IF NeedsUploadPacing(b.idx, Len(b.markdown_files))
          THEN [b EXCEPT !.pc = "sleep", !.uploaded = @ + 1]
          ELSE [b EXCEPT !.pc = "loop", !.uploaded = @ + 1, !.idx = @ + 1]
  /\ u' = NoUpload
  /\ UNCHANGED <<cfg, remote, next_id, rq, uo, f, ops, main, files, enc, cv>>

bulk_upload_slept ==
  /\ b.pc = "sleep"
  /\ b' = [b EXCEPT !.pc = "loop", !.idx = @ + 1]
  /\ UNCHANGED <<cfg, remote, next_id, rq, uo, f, ops, main, files, enc, u, cv>>

\* the exception ending the run
bulk_upload_failed_aborting ==
  /\ b.pc = "uploading" /\ u.pc = "raised"
  /\ b' = [b EXCEPT !.pc = "returned", !.failed = @ + 1]
  /\ u' = NoUpload
  /\ UNCHANGED <<cfg, remote, next_id, rq, uo, f, ops, main, files, enc, cv>>

\* except Exception: failed += 1
bulk_upload_failed ==
  /\ b.pc = "uploading" /\ u.pc = "raised"
  /\ b' = [b EXCEPT !.pc = "loop", !.failed = @ + 1, !.idx = @ + 1]
  /\ u' = NoUpload
  /\ UNCHANGED <<cfg, remote, next_id, rq, uo, f, ops, main, files, enc, cv>>

\* return uploaded, skipped, failed
bulk_upload_return ==
  /\ b.pc = "loop" /\ b.idx > Len(b.markdown_files)
  /\ b' = [b EXCEPT !.pc = "returned"]
  /\ UNCHANGED <<cfg, remote, next_id, rq, uo, f, ops, main, files, enc, u, cv>>

(* ------------------------------ the programs ---------------------------- *)
\* no operation is running
AtRest ==
  /\ f.pc \in {"none", "returned", "raised"}
  /\ u.pc \in {"none", "returned", "raised"}
  /\ b.pc \in {"none", "returned"}

\* main of markdown_to_notion.py: one upload_to_notion of the file
markdown_to_notion_main ==
  /\ main = "markdown_to_notion" /\ AtRest /\ ops = 0
  /\ \E update \in BOOLEAN, parent \in BOOLEAN : Call_upload_to_notion(1, parent, update)
  /\ f' = NoFrame
  /\ ops' = ops + 1
  /\ UNCHANGED <<cfg, remote, next_id, rq, uo, main, files, enc, b, cv>>

\* download_from_notion of notion_to_markdown.py: get_all_blocks of the page
notion_to_markdown_main ==
  /\ main = "notion_to_markdown" /\ AtRest /\ ops = 0
  /\ Call_get_all_blocks(1)
  /\ ops' = ops + 1
  /\ UNCHANGED <<cfg, remote, next_id, rq, uo, main, files, enc, u, b, cv>>

\* main of the script markdown-to-notion.py run with --update, with --force or not:
\* sys.exit(1) without notion_page_id, else delete_all_blocks
script_main ==
  /\ main = "markdown-to-notion.py" /\ AtRest /\ ops = 0
  /\ LET id == dict_get(parse_frontmatter(files[1]).frontmatter, K_notion_page_id, <<>>)
     IN IF id = <<>>
        THEN f' = [NoFrame EXCEPT !.fn = "script_main", !.pc = "raised",
                                  !.error = "SystemExit"]
        ELSE \E force_mode \in BOOLEAN :
               Call_script_delete_all_blocks(PageOfId(id), ~force_mode)
  /\ ops' = ops + 1
  /\ UNCHANGED <<cfg, remote, next_id, rq, uo, main, files, enc, u, b, cv>>

\* delete_all_blocks returned: upload_blocks_to_page of the encoded body
script_main_upload ==
  /\ main = "markdown-to-notion.py"
  /\ Running("script_delete_all_blocks", "returned")
  /\ Call_script_upload_blocks_to_page(f.page_id, Encoded(1))
  /\ UNCHANGED <<cfg, remote, next_id, rq, uo, ops, main, files, enc, u, b, cv>>

\* read_page of the script read-notion-page.py: get_all_blocks of the page
read_notion_page_main ==
  /\ main = "read-notion-page.py" /\ AtRest /\ ops = 0
  /\ Call_read_get_all_blocks(1)
  /\ ops' = ops + 1
  /\ UNCHANGED <<cfg, remote, next_id, rq, uo, main, files, enc, u, b, cv>>

\* bound: runs of bulk_upload.py over the same directory
MaxRuns == 2

\* main of bulk_upload.py: one bulk_upload of the directory, as the files and
\* the service were left by the run before
bulk_upload_main ==
  /\ main = "bulk_upload" /\ AtRest /\ ops < MaxRuns
  /\ \E parent \in BOOLEAN : Call_bulk_upload(parent)
  /\ f' = NoFrame
  /\ u' = NoUpload
  /\ ops' = ops + 1
  /\ UNCHANGED <<cfg, remote, next_id, rq, uo, main, files, enc, cv>>

(* ------------------------------ the inputs ------------------------------ *)
Line(key, value) == key \o <<":", " ">> \o value \o <<NL>>
Body == <<"b", NL>>
RECURSIVE Repeat(_, _)
Repeat(s, n) == IF n = 0 THEN <<>> ELSE s \o Repeat(s, n - 1)

\* a document without envelope
DocPlain == <<"#", " ">> \o Body
\* an envelope without remote identity
DocTitled == Marker \o Line(K_title, <<"t">>) \o Marker \o <<NL>> \o Body
\* the document as a create of page 1 left it
DocTagged ==
  write_frontmatter(<<<<K_notion_page_id, PageIdText(1)>>, <<K_notion_url, PageUrlText(1)>>,
                      <<K_title, <<"t">>>>, <<K_uploaded, <<"T", "0", ":", "0">>>>>>, Body)
\* the identity key without a value
DocNoId == Marker \o K_notion_page_id \o <<":", NL>> \o Marker \o <<NL>> \o Body
\* the identity key indented
DocIndented ==
  Marker \o <<" ">> \o Line(K_notion_page_id, PageIdText(1)) \o Marker \o <<NL>> \o Body
\* the identity key below ScanLimit - 1 other keys
DocLate ==
  Marker \o Repeat(Line(<<"k">>, <<"v">>), ScanLimit - 1)
         \o Line(K_notion_page_id, PageIdText(1)) \o Marker \o <<NL>> \o Body

UploadDocs == {DocPlain, DocTitled, DocTagged, DocNoId}
BulkDocs == {<<>>, DocPlain, DocTagged, DocIndented, DocLate}

\* the block lists a remote page may start with: ids by position, types from the set
RemoteLists(types) ==
  UNION {{[k \in 1..n |-> [id |-> k, type |-> t[k], src |-> 0]] : t \in [1..n -> types]}
         : n \in 0..MaxRemote}

\* no conversion in progress
NoConv == [fn |-> "none"]

Configs == [retry_attempts : 1..MaxAttempts, max_blocks_per_request : 1..MaxCap]

InitRest ==
  /\ next_id = MaxRemote + 1
  /\ rq = NoCall /\ uo = NoUrlopen /\ f = NoFrame /\ u = NoUpload /\ b = NoBulk
  /\ ops = 0
  /\ cv = NoConv

InitUpload ==
  /\ main = "markdown_to_notion"
  /\ cfg \in Configs
  /\ remote \in {<<c>> : c \in RemoteLists({"paragraph"})}
  /\ files \in {<<d>> : d \in UploadDocs}
  /\ enc \in [{1} -> 0..MaxBlocks]

InitDownload ==
  /\ main = "notion_to_markdown"
  /\ cfg \in {c \in Configs : c.max_blocks_per_request = 1}
  /\ remote \in {<<c>> : c \in RemoteLists({"paragraph", "child_page"})}
  /\ files = <<>> /\ enc = <<>>

InitScript ==
  /\ main = "markdown-to-notion.py"
  /\ cfg \in {c \in Configs : c.max_blocks_per_request = MaxCap /\ c.retry_attempts = 1}
  /\ remote \in {<<c>> : c \in RemoteLists({"paragraph"} \cup PROTECTED_BLOCK_TYPES)}
  /\ files \in {<<DocTagged>>, <<DocTitled>>}
  /\ enc \in [{1} -> 0..MaxBlocks]

InitRead ==
  /\ main = "read-notion-page.py"
  /\ cfg \in {c \in Configs : c.max_blocks_per_request = 1 /\ c.retry_attempts = 1}
  /\ remote \in {<<c>> : c \in RemoteLists({"paragraph", "child_page"})}
  /\ files = <<>> /\ enc = <<>>

InitBulk ==
  /\ main = "bulk_upload"
  /\ cfg \in {c \in Configs : c.max_blocks_per_request = 1 /\ c.retry_attempts = 1}
  /\ remote = <<<<>>>>
  /\ \E n \in 0..MaxFiles :
       /\ files \in [1..n -> BulkDocs]
       /\ enc = [k \in 1..n |-> 1]

Init == InitRest /\ (InitUpload \/ InitDownload \/ InitScript \/ InitRead \/ InitBulk)

Next ==
  \/ make_api_request_send
  \/ make_api_request_exhausted
  \/ make_api_request_ok
  \/ make_api_request_ok_no_cursor
  \/ make_api_request_rate_limited
  \/ make_api_request_http_error
  \/ make_api_request_exception
  \/ urlopen_answer
  \/ urlopen_answer_no_cursor
  \/ create_notion_page_return
  \/ create_notion_page_raise
  \/ upload_blocks_to_page_batch
  \/ upload_blocks_to_page_result
  \/ upload_blocks_to_page_slept
  \/ upload_blocks_to_page_raise
  \/ upload_blocks_to_page_return
  \/ get_all_blocks_list
  \/ get_all_blocks_listed
  \/ get_all_blocks_slept
  \/ get_all_blocks_raise
  \/ delete_all_blocks_list
  \/ delete_all_blocks_listed
  \/ delete_all_blocks_list_raise
  \/ delete_all_blocks_delete
  \/ delete_all_blocks_deleted
  \/ delete_all_blocks_ignored
  \/ delete_all_blocks_delete_raise
  \/ delete_all_blocks_slept
  \/ delete_all_blocks_return
  \/ script_delete_all_blocks_list
  \/ script_delete_all_blocks_listed
  \/ script_delete_all_blocks_list_raise
  \/ script_delete_all_blocks_preserve
  \/ script_delete_all_blocks_delete
  \/ script_delete_all_blocks_deleted
  \/ script_delete_all_blocks_ignored
  \/ script_delete_all_blocks_delete_raise
  \/ script_delete_all_blocks_return
  \/ script_upload_blocks_to_page_batch
  \/ script_upload_blocks_to_page_result
  \/ script_upload_blocks_to_page_raise
  \/ script_upload_blocks_to_page_return
  \/ read_get_all_blocks_list
  \/ read_get_all_blocks_listed
  \/ read_get_all_blocks_error
  \/ read_get_all_blocks_raise
  \/ upload_to_notion_begin_update
  \/ upload_to_notion_begin_create
  \/ upload_to_notion_deleted
  \/ upload_to_notion_created
  \/ upload_to_notion_updated
  \/ upload_to_notion_write
  \/ upload_to_notion_raise
  \/ bulk_upload_skip
  \/ bulk_upload_upload
  \/ bulk_upload_uploaded
  \/ bulk_upload_slept
  \/ bulk_upload_failed
  \/ bulk_upload_return
  \/ markdown_to_notion_main
  \/ notion_to_markdown_main
  \/ script_main
  \/ script_main_upload
  \/ read_notion_page_main
  \/ bulk_upload_main

Spec == Init /\ [][Next]_vars

(* ------------------- the metadata envelope, on its own ------------------ *)
\* bound: number of key: value lines of the envelopes drawn
MaxKeys == 2

EnvKeys == {<<"k">>, <<"j">>}
EnvValues == {<<"v">>, <<" ", "v">>, <<"v", " ">>, <<>>}
EnvBodies == {<<>>, <<"b">>, <<"b", NL>>, <<NL, "b">>, <<"b", NL, "-", "-", "-", NL, "c">>}

\* key: value sequences with unique keys, of at most MaxKeys lines
Metadata ==
  {m \in UNION {[1..n -> EnvKeys \X EnvValues] : n \in 0..MaxKeys} :
     \A x, y \in DOMAIN m : x # y => m[x][1] # m[y][1]}

\* the file content contract: marker line, "key: value" lines, marker line,
\* blank line, body
Enveloped == {write_frontmatter(m, body) : m \in Metadata, body \in EnvBodies}

\* documents that do not start with a marker line, or never close it
Bare == EnvBodies \cup {<<NL>> \o Marker \o <<"k", ":", " ", "v", NL>> \o Marker,
                        Marker \o <<"k", ":", " ", "v", NL>>,
                        <<"-", "-", "-">>}

\* a pure function called on its own: no service, no files, no transport frame
InitPure ==
  /\ cfg \in {c \in Configs : c.max_blocks_per_request = 1 /\ c.retry_attempts = 1}
  /\ remote = <<>> /\ files = <<>> /\ enc = <<>>
  /\ next_id = 1 /\ ops = 0
  /\ rq = NoCall /\ uo = NoUrlopen /\ f = NoFrame /\ u = NoUpload /\ b = NoBulk

InitEnvelope ==
  /\ main = "parse_frontmatter"
  /\ InitPure
  /\ \E d \in Enveloped \cup Bare :
       cv = [fn |-> "parse_frontmatter", pc |-> "call", doc |-> d,
             enveloped |-> d \in Enveloped,
             frontmatter |-> <<>>, content |-> <<>>, text |-> <<>>]

\* frontmatter, content = parse_frontmatter(content)
parse_frontmatter_return ==
  /\ cv.fn = "parse_frontmatter" /\ cv.pc = "call"
  /\ cv' = [cv EXCEPT !.pc = "parsed",
                      !.frontmatter = parse_frontmatter(cv.doc).frontmatter,
                      !.content = parse_frontmatter(cv.doc).content]
  /\ UNCHANGED <<cfg, remote, next_id, rq, uo, f, ops, main, files, enc, u, b>>

\* updated_content = "---\n" + lines + "---\n\n" + content
write_frontmatter_return ==
  /\ cv.fn = "parse_frontmatter" /\ cv.pc = "parsed"
  /\ cv' = [cv EXCEPT !.pc = "written",
                      !.text = write_frontmatter(cv.frontmatter, cv.content)]
  /\ UNCHANGED <<cfg, remote, next_id, rq, uo, f, ops, main, files, enc, u, b>>

NextEnvelope == parse_frontmatter_return \/ write_frontmatter_return

SpecEnvelope == InitEnvelope /\ [][NextEnvelope]_vars


(* --------------------------- inline formatter --------------------------- *)
\* MAX_TEXT_LENGTH of the script; Config.max_text_length of the package
\* defaults to the same value
MAX_TEXT_LENGTH == 2000

\* the backtick character (string literals of the notation cannot hold it)
Backtick == "backtick"

\* str.endswith
endswith(s, p) == Len(s) >= Len(p) /\ SubSeq(s, Len(s) - Len(p) + 1, Len(s)) = p

\* 1-based place of the first c in s at or after from, 0 when there is none
FirstAt(s, c, from) ==
  LET hits == {k \in from..Len(s) : s[k] = c}
  IN IF hits = {} THEN 0 ELSE CHOOSE k \in hits : \A m \in hits : k <= m

\* str.replace(old, ''): occurrences removed left to right, without overlap
RECURSIVE remove(_, _)
remove(s, old) ==
  LET k == find(s, old)
  IN IF k = -1 THEN s ELSE Take(s, k) \o remove(Drop(s, k + Len(old)), old)

\* a rich text object: content, link url (None when absent) and annotations
None == <<>>
Run(content, link, code, bold, italic, strikethrough) ==
  [content |-> content, link |-> link, code |-> code, bold |-> bold,
   italic |-> italic, strikethrough |-> strikethrough]
text_run(content) == Run(content, None, FALSE, FALSE, FALSE, FALSE)

\* what re.match returns: len = 0 when the pattern does not match at the start
NoMatch == [len |-> 0, text |-> <<>>, url |-> <<>>]

\* the code span pattern: a backtick, one or more other characters, a backtick
code_span_match(s) ==
  LET c == FirstAt(s, Backtick, 2)
  IN IF s # <<>> /\ s[1] = Backtick /\ c >= 3
     THEN [len |-> c, text |-> SubSeq(s, 2, c - 1), url |-> <<>>] ELSE NoMatch

\* the link pattern: bracketed text of one or more characters, then a
\* parenthesised url of one or more characters
link_match(s) ==
  LET c == FirstAt(s, "]", 2)
      e == FirstAt(s, ")", c + 2)
  IN IF s # <<>> /\ s[1] = "[" /\ c >= 3 /\ c < Len(s) /\ s[c + 1] = "(" /\ e >= c + 3
     THEN [len |-> e, text |-> SubSeq(s, 2, c - 1), url |-> SubSeq(s, c + 2, e - 1)]
     ELSE NoMatch

\* the bold pattern: two stars, one or more characters that are no star, two stars
bold_match(s) ==
  LET c == FirstAt(s, "*", 3)
  IN IF startswith(s, <<"*", "*">>) /\ c >= 4 /\ c < Len(s) /\ s[c + 1] = "*"
     THEN [len |-> c + 1, text |-> SubSeq(s, 3, c - 1), url |-> <<>>] ELSE NoMatch

\* the italic pattern: a star, one or more characters that are no star, a star
italic_match(s) ==
  LET c == FirstAt(s, "*", 2)
  IN IF startswith(s, <<"*">>) /\ c >= 3
     THEN [len |-> c, text |-> SubSeq(s, 2, c - 1), url |-> <<>>] ELSE NoMatch

\* the strikethrough pattern: two tildes, one or more other characters, two tildes
strike_match(s) ==
  LET c == FirstAt(s, "~", 3)
  IN IF startswith(s, <<"~", "~">>) /\ c >= 4 /\ c < Len(s) /\ s[c + 1] = "~"
     THEN [len |-> c + 1, text |-> SubSeq(s, 3, c - 1), url |-> <<>>] ELSE NoMatch

\* the bracket pattern of the script: bracketed text of one or more characters
bracket_match(s) ==
  LET c == FirstAt(s, "]", 2)
  IN IF startswith(s, <<"[">>) /\ c >= 3
     THEN [len |-> c, text |-> SubSeq(s, 1, c), url |-> <<>>] ELSE NoMatch

\* re.split on the code span pattern: the texts between the spans and the spans
RECURSIVE re_split_code(_)
re_split_code(text) ==
  LET starts == {p \in 1..Len(text) : code_span_match(Drop(text, p - 1)).len # 0}
      p == CHOOSE x \in starts : \A y \in starts : x <= y
      n == code_span_match(Drop(text, p - 1)).len
  IN IF starts = {} THEN <<text>>
     ELSE <<Take(text, p - 1), SubSeq(text, p, p + n - 1)>>
            \o re_split_code(Drop(text, p + n - 1))

\* a code span whose inside loses its stars
code_span_unstarred(part, max_length) ==
  Run(Take(remove(SubSeq(part, 2, Len(part) - 1), <<"*">>), max_length), None, TRUE, FALSE, FALSE, FALSE)

\* the run of a part that starts and ends with a backtick
code_span(part, max_length) ==
  Run(Take(SubSeq(part, 2, Len(part) - 1), max_length), None, TRUE, FALSE, FALSE, FALSE)

\* the run of a link with the whole of its text
link_run_uncut(link_text, url, max_length) ==
  Run(remove(remove(remove(link_text, <<"*", "*">>), <<"*">>), <<"~", "~">>),
      url, FALSE,
      find(link_text, <<"*", "*">>) # -1,
      find(link_text, <<"*">>) # -1 /\ find(link_text, <<"*", "*">>) = -1,
      find(link_text, <<"~", "~">>) # -1)
\* the run of a link: annotations from the markers inside the link text, the
\* markers removed from it; url None gives a run without link
link_run(link_text, url, max_length) ==
  Run(Take(remove(remove(remove(link_text, <<"*", "*">>), <<"*">>), <<"~", "~">>), max_length),
      url, FALSE,
      find(link_text, <<"*", "*">>) # -1,
      find(link_text, <<"*">>) # -1 /\ find(link_text, <<"*", "*">>) = -1,
      find(link_text, <<"~", "~">>) # -1)

\* the place of the next '[', '**', '*' or '~~' at or after pos, len(part) when
\* there is none (places 0-based)
next_special(part, pos) ==
  LET hits == {k \in pos..(Len(part) - 1) :
                 \E pat \in {<<"[">>, <<"*", "*">>, <<"*">>, <<"~", "~">>} :
                   startswith(Drop(part, k), pat)}
  IN IF hits = {} THEN Len(part) ELSE CHOOSE k \in hits : \A m \in hits : k <= m

\* resolve_link(url) of the script, _link_map a dict
resolve_link(url, link_map) ==
  LET base_url == split(url, <<"#">>)[1]
  IN IF \/ startswith(url, <<"h", "t", "t", "p", ":", "/", "/">>)
        \/ startswith(url, <<"h", "t", "t", "p", "s", ":", "/", "/">>)
        \/ startswith(url, <<"m", "a", "i", "l", "t", "o", ":">>)
     THEN url
     ELSE IF dict_has(link_map, base_url) THEN dict_get(link_map, base_url, None)
     ELSE IF endswith(base_url, <<".", "m", "d">>) THEN None
     ELSE url

\* the while loop of the package over one part, from pos (0-based)
RECURSIVE format_part(_, _, _)
format_part(part, pos, max_length) ==
  LET s == Drop(part, pos)
      link == link_match(s)
      bold == bold_match(s)
      italic == italic_match(s)
      strike == strike_match(s)
      special == next_special(part, pos)
  IN IF pos >= Len(part) THEN <<>>
     ELSE IF link.len > 0
       THEN <<link_run(link.text, link.url, max_length)>>
              \o format_part(part, pos + link.len, max_length)
     ELSE IF bold.len > 0
       THEN <<Run(Take(bold.text, max_length), None, FALSE, TRUE, FALSE, FALSE)>>
              \o format_part(part, pos + bold.len, max_length)
     ELSE IF italic.len > 0
       THEN <<Run(Take(italic.text, max_length), None, FALSE, FALSE, TRUE, FALSE)>>
              \o format_part(part, pos + italic.len, max_length)
     ELSE IF strike.len > 0
       THEN <<Run(Take(strike.text, max_length), None, FALSE, FALSE, FALSE, TRUE)>>
              \o format_part(part, pos + strike.len, max_length)
     ELSE IF special > pos
       THEN <<text_run(Take(SubSeq(part, pos + 1, special), max_length))>>
              \o format_part(part, special, max_length)
     ELSE format_part(part, pos + 1, max_length)

\* the while loop of the script: links resolved, bracketed text kept
RECURSIVE script_format_part(_, _, _)
script_format_part(part, pos, link_map) ==
  LET s == Drop(part, pos)
      link == link_match(s)
      bold == bold_match(s)
      italic == italic_match(s)
      strike == strike_match(s)
      bracket == bracket_match(s)
      special == next_special(part, pos)
  IN IF pos >= Len(part) THEN <<>>
     ELSE IF link.len > 0
       THEN <<link_run(link.text, resolve_link(link.url, link_map), MAX_TEXT_LENGTH)>>
              \o script_format_part(part, pos + link.len, link_map)
     ELSE IF bold.len > 0
       THEN <<Run(Take(bold.text, MAX_TEXT_LENGTH), None, FALSE, TRUE, FALSE, FALSE)>>
              \o script_format_part(part, pos + bold.len, link_map)
     ELSE IF italic.len > 0
       THEN <<Run(Take(italic.text, MAX_TEXT_LENGTH), None, FALSE, FALSE, TRUE, FALSE)>>
              \o script_format_part(part, pos + italic.len, link_map)
     ELSE IF strike.len > 0
       THEN <<Run(Take(strike.text, MAX_TEXT_LENGTH), None, FALSE, FALSE, FALSE, TRUE)>>
              \o script_format_part(part, pos + strike.len, link_map)
     ELSE IF bracket.len > 0 /\ pos + bracket.len < Len(part) /\ part[pos + bracket.len + 1] = "("
       THEN script_format_part(part, pos + 1, link_map)
     ELSE IF bracket.len > 0
       THEN <<text_run(Take(bracket.text, MAX_TEXT_LENGTH))>>
              \o script_format_part(part, pos + bracket.len, link_map)
     ELSE IF special > pos
       THEN <<text_run(Take(SubSeq(part, pos + 1, special), MAX_TEXT_LENGTH))>>
              \o script_format_part(part, special, link_map)
     ELSE script_format_part(part, pos + 1, link_map)

\* is the part taken for a code span
IsCodePart(part) == startswith(part, <<Backtick>>) /\ endswith(part, <<Backtick>>)

\* the for loop of the package over the parts
RECURSIVE format_parts(_, _)
format_parts(parts, max_length) ==
  IF parts = <<>> THEN <<>>
  ELSE (IF Head(parts) = <<>> THEN <<>>
        ELSE IF IsCodePart(Head(parts)) THEN <<code_span(Head(parts), max_length)>>
        ELSE format_part(Head(parts), 0, max_length))
       \o format_parts(Tail(parts), max_length)

RECURSIVE script_format_parts(_, _)
script_format_parts(parts, link_map) ==
  IF parts = <<>> THEN <<>>
  ELSE (IF Head(parts) = <<>> THEN <<>>
        ELSE IF IsCodePart(Head(parts)) THEN <<code_span(Head(parts), MAX_TEXT_LENGTH)>>
        ELSE script_format_part(Head(parts), 0, link_map))
       \o script_format_parts(Tail(parts), link_map)

\* parse_markdown_formatting(text, max_length) of the package
parse_markdown_formatting(text, max_length) ==
  LET rich_text == format_parts(re_split_code(text), max_length)
  IN IF rich_text # <<>> THEN rich_text ELSE <<text_run(<<>>)>>

\* parse_markdown_formatting(text) of the script, with the _link_map it reads
script_parse_markdown_formatting(text, link_map) ==
  LET rich_text == script_format_parts(re_split_code(text), link_map)
  IN IF rich_text # <<>> THEN rich_text ELSE <<text_run(<<>>)>>


(* --------------------- the inline formatter, on its own ----------------- *)
\* bound: number of pieces a line of text is put together from
MaxPieces == 3
\* bound: the small max_text_length the package is configured with
ShortCap == 2

TxtHttp == <<"h", "t", "t", "p", ":", "/", "/", "x">>
TxtMapped == <<"g", ".", "m", "d">>
TxtUnmapped == <<"u", ".", "m", "d">>
TxtImage == <<"i", ".", "p", "n", "g">>
TxtRemote == <<"h", "t", "t", "p", "s", ":", "/", "/", "n", "/", "1">>

\* [text](url) as written in a line
Link(text, url) == <<"[">> \o text \o <<"]", "(">> \o url \o <<")">>

\* _link_map after build_link_map found one sibling document with an identity
LinkMap == << <<TxtMapped, TxtRemote>> >>

Pieces ==
  { <<"a">>, <<"*">>, <<"~", "~">>, <<"[">>, <<"(">>, <<Backtick>>,
    <<"*", "a", "*">>, <<"*", "*", "a", "*", "*">>, <<"~", "~", "a", "~", "~">>,
    <<"[", "a", "]">>,
    Link(<<"a">>, TxtHttp), Link(<<"a">>, TxtMapped),
    Link(<<"a">>, TxtUnmapped), Link(<<"a">>, TxtImage) }

\* the lines of text drawn: at most MaxPieces pieces, concatenated
Texts == {Flatten(ps) : ps \in UNION {[1..n -> Pieces] : n \in 0..MaxPieces}}

InitInline ==
  /\ main = "parse_markdown_formatting"
  /\ InitPure
  /\ \E t \in Texts :
       \/ \E m \in {ShortCap, MAX_TEXT_LENGTH} :
            cv = [fn |-> "parse_markdown_formatting", pc |-> "call", text |-> t,
                  max_length |-> m, link_map |-> <<>>, rich_text |-> <<>>]
       \/ cv = [fn |-> "script_parse_markdown_formatting", pc |-> "call", text |-> t,
                max_length |-> MAX_TEXT_LENGTH, link_map |-> LinkMap, rich_text |-> <<>>]

\* rich_text = parse_markdown_formatting(text, max_length), of the package
parse_markdown_formatting_return ==
  /\ cv.fn = "parse_markdown_formatting" /\ cv.pc = "call"
  /\ cv' = [cv EXCEPT !.pc = "returned",
                      !.rich_text = parse_markdown_formatting(cv.text, cv.max_length)]
  /\ UNCHANGED <<cfg, remote, next_id, rq, uo, f, ops, main, files, enc, u, b>>

\* rich_text = parse_markdown_formatting(text), of the script
script_parse_markdown_formatting_return ==
  /\ cv.fn = "script_parse_markdown_formatting" /\ cv.pc = "call"
  /\ cv' = [cv EXCEPT !.pc = "returned",
                      !.rich_text = script_parse_markdown_formatting(cv.text, cv.link_map)]
  /\ UNCHANGED <<cfg, remote, next_id, rq, uo, f, ops, main, files, enc, u, b>>

NextInline == parse_markdown_formatting_return \/ script_parse_markdown_formatting_return

SpecInline == InitInline /\ [][NextInline]_vars


(* ------------------------------ block mapper ---------------------------- *)
\* MAX_TABLE_ROWS of markdown_to_notion_blocks
MAX_TABLE_ROWS == 100

\* str.rstrip(): whitespace off the right end
rstrip(s) == rstrip_chars(s, {" ", NL})

\* sep.join(texts)
RECURSIVE join(_, _)
join(texts, sep) ==
  IF texts = <<>> THEN <<>>
  ELSE IF Len(texts) = 1 THEN Head(texts)
  ELSE Head(texts) \o sep \o join(Tail(texts), sep)

\* [x for x in xs if x]
RECURSIVE NonEmpty(_)
NonEmpty(xs) ==
  IF xs = <<>> THEN <<>>
  ELSE (IF Head(xs) = <<>> THEN <<>> ELSE <<Head(xs)>>) \o NonEmpty(Tail(xs))

\* the converter running: the package with its max_text_length, or the script
\* with its _link_map
Package(max_text_length) ==
  [script |-> FALSE, max_text_length |-> max_text_length, link_map |-> <<>>]
Script(link_map) ==
  [script |-> TRUE, max_text_length |-> MAX_TEXT_LENGTH, link_map |-> link_map]
\* the call of parse_markdown_formatting each of the two makes
rich(text, conv) ==
  IF conv.script THEN script_parse_markdown_formatting(text, conv.link_map)
  ELSE parse_markdown_formatting(text, conv.max_text_length)

\* a block object: its type and what the object under that key holds
Block(type, rich_text) ==
  [type |-> type, rich_text |-> rich_text, checked |-> FALSE, language |-> <<>>,
   table_width |-> 0, children |-> <<>>]
table_row(cells) == [type |-> "table_row", cells |-> cells]

PlainText == <<"p", "l", "a", "i", "n", " ", "t", "e", "x", "t">>
\* the characters of the language pattern [a-z0-9 +#], case ignored
LanguageChars ==
  {"a", "b", "c", "d", "e", "f", "g", "h", "i", "j", "k", "l", "m", "n", "o", "p", "q",
   "r", "s", "t", "u", "v", "w", "x", "y", "z", "A", "B", "C", "D", "E", "F", "G", "H",
   "I", "J", "K", "L", "M", "N", "O", "P", "Q", "R", "S", "T", "U", "V", "W", "X", "Y",
   "Z", "0", "1", "2", "3", "4", "5", "6", "7", "8", "9", " ", "+", "#"}
Fence == <<Backtick, Backtick, Backtick>>

\* the longest prefix of s made of characters of cs
RECURSIVE prefix_of(_, _)
prefix_of(s, cs) ==
  IF s # <<>> /\ Head(s) \in cs THEN <<Head(s)>> \o prefix_of(Tail(s), cs) ELSE <<>>

\* language of a line that opens a fence
language_of(line) ==
  LET group == prefix_of(Drop(line, 3), LanguageChars)
  IN IF group # <<>> /\ strip(group) # <<>> THEN strip(group) ELSE PlainText

\* the number of digits a numbered item starts with, 0 when the line is none
numbered_match(line) ==
  LET digits == prefix_of(line, {"0", "1", "2", "3", "4", "5", "6", "7", "8", "9"})
  IN IF digits # <<>> /\ startswith(Drop(line, Len(digits)), <<".", " ">>)
     THEN Len(digits) + 2 ELSE 0

\* the checkbox token removed from the start of a to-do line, when it is there
to_do_content(line) ==
  IF Len(line) >= 6 /\ SubSeq(line, 1, 3) = <<"-", " ", "[">>
     /\ line[4] \in {"x", "X", " "} /\ SubSeq(line, 5, 6) = <<"]", " ">>
  THEN Drop(line, 6) ELSE line

\* the paragraph put between two parts of a split table
continued(part) ==
  Block("paragraph",
    <<text_run(<<"(", "T", "a", "b", "l", "e", " ", "c", "o", "n", "t", "i", "n", "u", "e", "d",
                 " ", "-", " ", "p", "a", "r", "t", " ">> \o Decimal(part) \o <<")">>)>>)

table(num_cols, children) ==
  [Block("table", <<>>) EXCEPT !.table_width = num_cols, !.children = children]

\* a chunk that holds the header and MAX_TABLE_ROWS data rows
chunk_size_full == MAX_TABLE_ROWS
\* chunk_size: the data rows of one part of a split table
chunk_size == MAX_TABLE_ROWS - 1

\* the loop over the chunks of the data rows, from chunk_idx
RECURSIVE table_chunks(_, _, _, _)
table_chunks(header_row, data_rows, chunk_idx, num_cols) ==
  IF chunk_idx >= Len(data_rows) THEN <<>>
  ELSE <<table(num_cols, <<header_row>>
            \o SubSeq(data_rows, chunk_idx + 1, Min(chunk_idx + chunk_size, Len(data_rows))))>>
       \o (IF chunk_idx + chunk_size < Len(data_rows)
           THEN <<continued((chunk_idx \div chunk_size) + 2)>> ELSE <<>>)
       \o table_chunks(header_row, data_rows, chunk_idx + chunk_size, num_cols)

\* the blocks made of the rows of one table
table_blocks(table_children, num_cols) ==
  IF Len(table_children) <= MAX_TABLE_ROWS THEN <<table(num_cols, table_children)>>
  ELSE table_chunks(Head(table_children), Tail(table_children), 0, num_cols)

\* the cells of the lines that are rows: separator lines and empty rows skipped
RECURSIVE table_rows(_)
table_rows(table_lines) ==
  IF table_lines = <<>> THEN <<>>
  ELSE LET table_line == Head(table_lines)
           parts == split(table_line, <<"|">>)
           cells == NonEmpty([k \in DOMAIN parts |-> strip(parts[k])])
       IN (IF startswith(table_line, <<"|", "-">>) \/ cells = <<>> THEN <<>> ELSE <<cells>>)
          \o table_rows(Tail(table_lines))

\* a row with the cells it was written with
table_child_ragged(row, num_cols, conv) ==
  table_row([k \in 1..Len(row) |-> rich(row[k], conv)])
\* a row padded with empty cells or cut to num_cols cells, each cell formatted
table_child(row, num_cols, conv) ==
  table_row([k \in 1..num_cols |-> rich(IF k <= Len(row) THEN row[k] ELSE <<>>, conv)])

\* the blocks made of a group of lines that hold '|'
table_of_lines(table_lines, conv) ==
  LET rows == table_rows(table_lines)
      num_cols == Len(rows[1])
  IN IF \A k \in DOMAIN table_lines :
          find(table_lines[k], <<"-">>) # -1 \/ table_lines[k] = <<"|">>
     THEN <<>>
     ELSE IF rows = <<>> THEN <<>>
     ELSE table_blocks([k \in DOMAIN rows |-> table_child(rows[k], num_cols, conv)], num_cols)

\* the first place at or after from (0-based) whose line satisfies Stop, len(lines)
\* when there is none
FirstLine(lines, from, Stop(_)) ==
  LET hits == {k \in from..(Len(lines) - 1) : Stop(lines[k + 1])}
  IN IF hits = {} THEN Len(lines) ELSE CHOOSE k \in hits : \A m \in hits : k <= m

ClosesFence(l) == startswith(strip(l), Fence)
HasNoPipe(l) == find(l, <<"|">>) = -1

\* the while loop of markdown_to_notion_blocks over the lines, from i (0-based)
RECURSIVE encode_lines(_, _, _)
encode_lines(lines, i, conv) ==
  LET line == rstrip(lines[i + 1])
      close == FirstLine(lines, i + 1, ClosesFence)
      end == FirstLine(lines, i, HasNoPipe)
      one(block) == <<block>> \o encode_lines(lines, i + 1, conv)
  IN IF i >= Len(lines) THEN <<>>
     ELSE IF line = <<>> THEN encode_lines(lines, i + 1, conv)
     ELSE IF startswith(line, <<"#", " ">>)
       THEN one(Block("heading_1", rich(Drop(line, 2), conv)))
     ELSE IF startswith(line, <<"#", "#", " ">>)
       THEN one(Block("heading_2", rich(Drop(line, 3), conv)))
     ELSE IF startswith(line, <<"#", "#", "#", " ">>)
       THEN one(Block("heading_3", rich(Drop(line, 4), conv)))
     ELSE IF startswith(line, Fence)
       THEN <<[Block("code",
                 <<text_run(Take(join([k \in 1..(close - i - 1) |-> rstrip(lines[i + 1 + k])],
                                      <<NL>>), conv.max_text_length))>>)
               EXCEPT !.language = language_of(line)]>>
            \o encode_lines(lines, close + 1, conv)
     ELSE IF find(line, <<"|">>) # -1 /\ i + 1 < Len(lines) /\ find(lines[i + 2], <<"|">>) # -1
       THEN table_of_lines([k \in 1..(end - i) |-> strip(lines[i + k])], conv)
            \o encode_lines(lines, end, conv)
     ELSE IF strip(line) = <<"-", "-", "-">>
       THEN one(Block("divider", <<>>))
     ELSE IF startswith(line, <<">", " ">>)
       THEN one(Block("quote", rich(Drop(line, 2), conv)))
     ELSE IF startswith(line, <<"-", " ">>) /\ ~startswith(line, <<"-", " ", "[">>)
       THEN one(Block("bulleted_list_item", rich(Drop(line, 2), conv)))
     ELSE IF startswith(line, <<"-", " ", "[">>)
       THEN one([Block("to_do", rich(to_do_content(line), conv))
                 EXCEPT !.checked = \E k \in 1..Min(5, Len(line)) : line[k] \in {"x", "X"}])
     ELSE IF numbered_match(line) > 0
       THEN one(Block("numbered_list_item", rich(Drop(line, numbered_match(line)), conv)))
     ELSE one(Block("paragraph", rich(line, conv)))

\* markdown_to_notion_blocks(md_content, config) of the package and
\* markdown_to_notion_blocks(md_content) of the script
markdown_to_notion_blocks(md_content, conv) ==
  encode_lines(split(md_content, <<NL>>), 0, conv)


(* ------------------------ the table split, on its own ------------------- *)
\* bound: largest number of rows of the tables drawn
MaxRows == 250

\* the rows of a table of n rows and two columns, as the converter parses them:
\* row k holds the cells k and "b"
RowsOf(n, conv) == [k \in 1..n |-> table_child(<<Decimal(k), <<"b">>>>, 2, conv)]

InitTable ==
  /\ main = "table_blocks"
  /\ InitPure
  /\ \E n \in 1..MaxRows, conv \in {Package(MAX_TEXT_LENGTH), Script(<<>>)} :
       cv = [fn |-> "table_blocks", pc |-> "call", script |-> conv.script,
             table_children |-> RowsOf(n, conv), num_cols |-> 2, blocks |-> <<>>]

\* the table blocks appended for table_children, without or with split
table_blocks_single ==
  /\ cv.fn = "table_blocks" /\ cv.pc = "call"
  /\ Len(cv.table_children) <= MAX_TABLE_ROWS
  /\ cv' = [cv EXCEPT !.pc = "returned",
                      !.blocks = table_blocks(cv.table_children, cv.num_cols)]
  /\ UNCHANGED <<cfg, remote, next_id, rq, uo, f, ops, main, files, enc, u, b>>

table_blocks_split ==
  /\ cv.fn = "table_blocks" /\ cv.pc = "call"
  /\ Len(cv.table_children) > MAX_TABLE_ROWS
  /\ cv' = [cv EXCEPT !.pc = "returned",
                      !.blocks = table_blocks(cv.table_children, cv.num_cols)]
  /\ UNCHANGED <<cfg, remote, next_id, rq, uo, f, ops, main, files, enc, u, b>>

NextTable == table_blocks_single \/ table_blocks_split

SpecTable == InitTable /\ [][NextTable]_vars


(* -------------------------------- decoder ------------------------------- *)
\* the markdown of one rich text object: code, bold, italic, strikethrough
\* wrapped in that order, then the link
run_to_markdown(text_obj) ==
  LET coded == IF text_obj.code THEN <<Backtick>> \o text_obj.content \o <<Backtick>>
               ELSE text_obj.content
      bolded == IF text_obj.bold THEN <<"*", "*">> \o coded \o <<"*", "*">> ELSE coded
      slanted == IF text_obj.italic THEN <<"*">> \o bolded \o <<"*">> ELSE bolded
      struck == IF text_obj.strikethrough THEN <<"~", "~">> \o slanted \o <<"~", "~">>
                ELSE slanted
  IN IF text_obj.link # None
     THEN <<"[">> \o struck \o <<"]", "(">> \o text_obj.link \o <<")">>
     ELSE struck

\* rich_text_to_markdown(rich_text_array)
rich_text_to_markdown(rich_text_array) ==
  Flatten([k \in DOMAIN rich_text_array |-> run_to_markdown(rich_text_array[k])])

\* the text of the type tag of a block the decoder has no branch for
TypeText(type) ==
  CASE type = "embed" -> <<"e", "m", "b", "e", "d">>
    [] type = "video" -> <<"v", "i", "d", "e", "o">>

\* an unsupported block that leaves no trace
unsupported_silent(type) == <<>>
\* the else branch of block_to_markdown: a comment that carries the type
unsupported(type) ==
  <<"<", "!", "-", "-", " ", "U", "n", "s", "u", "p", "p", "o", "r", "t", "e", "d", " ",
    "b", "l", "o", "c", "k", " ", "t", "y", "p", "e", ":", " ">>
    \o TypeText(type) \o <<" ", "-", "-", ">">>

\* block_to_markdown(block), for the block types the converters produce and for
\* types it has no branch for (callout, toggle, child_page and link_to_page
\* are not among the blocks drawn)
block_to_markdown(block) ==
  CASE block.type = "paragraph" -> rich_text_to_markdown(block.rich_text)
    [] block.type = "heading_1" -> <<"#", " ">> \o rich_text_to_markdown(block.rich_text)
    [] block.type = "heading_2" -> <<"#", "#", " ">> \o rich_text_to_markdown(block.rich_text)
    [] block.type = "heading_3" ->
         <<"#", "#", "#", " ">> \o rich_text_to_markdown(block.rich_text)
    [] block.type = "bulleted_list_item" ->
         <<"-", " ">> \o rich_text_to_markdown(block.rich_text)
    [] block.type = "numbered_list_item" ->
         <<"1", ".", " ">> \o rich_text_to_markdown(block.rich_text)
    [] block.type = "to_do" ->
         <<"-", " ", "[", IF block.checked THEN "x" ELSE " ", "]", " ">>
           \o rich_text_to_markdown(block.rich_text)
    [] block.type = "code" ->
         Fence \o block.language \o <<NL>> \o rich_text_to_markdown(block.rich_text)
           \o <<NL>> \o Fence
    [] block.type = "quote" -> <<">", " ">> \o rich_text_to_markdown(block.rich_text)
    [] block.type = "divider" -> <<"-", "-", "-">>
    [] block.type = "table" -> <<>>
    [] block.type = "table_row" ->
         <<"|", " ">>
           \o join([k \in DOMAIN block.cells |-> rich_text_to_markdown(block.cells[k])],
                   <<" ", "|", " ">>)
           \o <<" ", "|">>
    [] OTHER -> unsupported(block.type)

\* the separator row of num_cols columns
separator(num_cols) ==
  <<"|", " ">> \o join([k \in 1..num_cols |-> <<"-", "-", "-">>], <<" ", "|", " ">>)
    \o <<" ", "|">>
\* a separator put after every row
RowLines_every(md, block, table_row_count) == <<md, separator(Len(block.cells))>>
\* the lines appended for a row of a table: the row, and the separator after
\* the first row
RowLines(md, block, table_row_count) ==
  IF table_row_count = 0 THEN <<md, separator(Len(block.cells))>> ELSE <<md>>

\* the state of the loop of download_from_notion over the blocks
NoDecode == [markdown_lines |-> <<>>, in_table |-> FALSE, table_row_count |-> 0]

\* one iteration of the loop, on block
decode_block(d, block) ==
  IF block.type = "table"
  THEN [d EXCEPT !.in_table = TRUE, !.table_row_count = 0]
  ELSE IF d.in_table /\ block.type = "table_row"
  THEN IF block_to_markdown(block) # <<>>
       THEN [d EXCEPT !.markdown_lines =
                        @ \o RowLines(block_to_markdown(block), block, d.table_row_count),
                      !.table_row_count = @ + 1]
       ELSE d
  ELSE IF block.type # "table_row"
  THEN [d EXCEPT !.in_table = FALSE,
                 !.markdown_lines = IF block_to_markdown(block) # <<>>
                                    THEN Append(@, block_to_markdown(block)) ELSE @]
  ELSE d

\* the loop over all the blocks
RECURSIVE decode_blocks(_, _)
decode_blocks(d, blocks) ==
  IF blocks = <<>> THEN d ELSE decode_blocks(decode_block(d, Head(blocks)), Tail(blocks))

\* the content written after the frontmatter: '\n\n'.join(markdown_lines)
decoded_content(blocks) ==
  join(decode_blocks(NoDecode, blocks).markdown_lines, <<NL, NL>>)


(* ---------------------- the block mapper, on its own -------------------- *)
\* bound: number of lines of the bodies drawn
MaxLines == 3

\* lines of the supported constructs: headings, paragraph, list items, quote,
\* divider, fences, table rows, inline formatting
ConstructLines ==
  { <<"#", " ", "a">>,
    <<"#", "#", " ", "a">>,
    <<"#", "#", "#", " ", "a">>,
    <<"a">>,
    <<"-", " ", "a">>,
    <<"1", ".", " ", "a">>,
    <<"2", ".", " ", "a">>,
    <<"-", " ", "[", "x", "]", " ", "a">>,
    <<"-", " ", "[", " ", "]", " ", "a">>,
    <<">", " ", "a">>,
    <<"-", "-", "-">>,
    <<Backtick, Backtick, Backtick>>,
    <<Backtick, Backtick, Backtick, "p", "y">>,
    <<"|", "a", "|", "b", "|">>,
    <<"|", "-", "-", "-", "|", "-", "-", "-", "|">>,
    <<"*", "*", "a", "*", "*", " ", "b">> }

\* lines with a marker that also hold the column separator, a line with a
\* dash and the separator, and the empty line
PipeLines ==
  { <<">", " ", "a", "|", "b">>,
    <<"-", " ", "a", "|", "b">>,
    <<"-", " ", "[", " ", "]", " ", "a", "|", "b">>,
    <<"1", ".", " ", "a", "|", "b">>,
    <<"a", "-", "|", "b">>,
    <<>> }

\* the bodies drawn: at most MaxLines lines, joined by newlines
Bodies ==
  UNION {[1..n -> ConstructLines \cup PipeLines] : n \in 0..MaxLines}

InitBlocks ==
  /\ main = "markdown_to_notion_blocks"
  /\ InitPure
  /\ \E ls \in Bodies, conv \in {Package(MAX_TEXT_LENGTH), Script(LinkMap)} :
       cv = [fn |-> "markdown_to_notion_blocks", pc |-> "call", conv |-> conv,
             lines |-> ls, md_content |-> join(ls, <<NL>>),
             blocks |-> <<>>, markdown |-> <<>>]

\* blocks = markdown_to_notion_blocks(content, config), of the package
markdown_to_notion_blocks_return ==
  /\ cv.fn = "markdown_to_notion_blocks" /\ cv.pc = "call" /\ ~cv.conv.script
  /\ cv' = [cv EXCEPT !.pc = "encoded",
                      !.blocks = markdown_to_notion_blocks(cv.md_content, cv.conv)]
  /\ UNCHANGED <<cfg, remote, next_id, rq, uo, f, ops, main, files, enc, u, b>>

\* blocks = markdown_to_notion_blocks(content), of the script
script_markdown_to_notion_blocks_return ==
  /\ cv.fn = "markdown_to_notion_blocks" /\ cv.pc = "call" /\ cv.conv.script
  /\ cv' = [cv EXCEPT !.pc = "encoded",
                      !.blocks = markdown_to_notion_blocks(cv.md_content, cv.conv)]
  /\ UNCHANGED <<cfg, remote, next_id, rq, uo, f, ops, main, files, enc, u, b>>

\* the blocks, uploaded and listed again, go through the loop of
\* download_from_notion
download_from_notion_convert ==
  /\ cv.fn = "markdown_to_notion_blocks" /\ cv.pc = "encoded"
  /\ cv' = [cv EXCEPT !.pc = "decoded", !.markdown = decoded_content(cv.blocks)]
  /\ UNCHANGED <<cfg, remote, next_id, rq, uo, f, ops, main, files, enc, u, b>>

NextBlocks ==
  \/ markdown_to_notion_blocks_return
  \/ script_markdown_to_notion_blocks_return
  \/ download_from_notion_convert

SpecBlocks == InitBlocks /\ [][NextBlocks]_vars


(* ---------------- the conversion loop of the download, on its own -------- *)
\* bound: number of blocks of the pages converted
MaxPage == 4

Cell(text) == <<text_run(text)>>
\* the blocks a page is made of: a table block, rows of two cells and of one,
\* a row of dashes, paragraphs with and without text, a divider, two blocks
\* of types the decoder does not know
RemoteBlocks ==
  { table(2, <<>>),
    table_row(<<Cell(<<"a">>), Cell(<<"b">>)>>),
    table_row(<<Cell(<<"-", "-", "-">>), Cell(<<"-", "-", "-">>)>>),
    table_row(<<Cell(<<"a">>)>>),
    Block("paragraph", Cell(<<"p">>)),
    Block("paragraph", <<>>),
    Block("divider", <<>>),
    Block("embed", <<>>),
    Block("video", <<>>) }

InitDecode ==
  /\ main = "download_from_notion"
  /\ InitPure
  /\ \E bs \in UNION {[1..n -> RemoteBlocks] : n \in 0..MaxPage} :
       cv = [fn |-> "download_from_notion", pc |-> "loop", blocks |-> bs, k |-> 0,
             d |-> NoDecode, markdown |-> <<>>]

\* the block of the iteration the loop is at
AtBlock == cv.fn = "download_from_notion" /\ cv.pc = "loop" /\ cv.k < Len(cv.blocks)
Iterate ==
  /\ cv' = [cv EXCEPT !.k = @ + 1, !.d = decode_block(cv.d, cv.blocks[cv.k + 1])]
  /\ UNCHANGED <<cfg, remote, next_id, rq, uo, f, ops, main, files, enc, u, b>>

\* if block['type'] == 'table'
download_from_notion_table ==
  /\ AtBlock /\ cv.blocks[cv.k + 1].type = "table"
  /\ Iterate

\* elif in_table and block['type'] == 'table_row'
download_from_notion_table_row ==
  /\ AtBlock /\ cv.blocks[cv.k + 1].type = "table_row" /\ cv.d.in_table
  /\ Iterate

\* elif block['type'] != 'table_row'
download_from_notion_block ==
  /\ AtBlock /\ cv.blocks[cv.k + 1].type \notin {"table", "table_row"}
  /\ Iterate

\* a table_row outside a table: no branch is taken
download_from_notion_skip ==
  /\ AtBlock /\ cv.blocks[cv.k + 1].type = "table_row" /\ ~cv.d.in_table
  /\ Iterate

\* markdown_content = frontmatter + '\n\n'.join(markdown_lines)
download_from_notion_join ==
  /\ cv.fn = "download_from_notion" /\ cv.pc = "loop" /\ cv.k = Len(cv.blocks)
  /\ cv' = [cv EXCEPT !.pc = "joined", !.markdown = join(cv.d.markdown_lines, <<NL, NL>>)]
  /\ UNCHANGED <<cfg, remote, next_id, rq, uo, f, ops, main, files, enc, u, b>>

NextDecode ==
  \/ download_from_notion_table
  \/ download_from_notion_table_row
  \/ download_from_notion_block
  \/ download_from_notion_skip
  \/ download_from_notion_join

SpecDecode == InitDecode /\ [][NextDecode]_vars


(* ------------------- groups of table lines, on their own ---------------- *)
\* bound: number of lines of the groups drawn
MaxGroup == 4

\* lines that hold '|': rows of one, two and three cells, a row with an empty
\* cell only, divider rows written without and with spaces and with colons
GroupLines ==
  { <<"|", "a", "|", "b", "|">>,
    <<"|", "a", "|">>,
    <<"|", "a", "|", "b", "|", "c", "|">>,
    <<"|", " ", "|">>,
    <<"|", "-", "-", "-", "|", "-", "-", "-", "|">>,
    <<"|", " ", "-", "-", "-", " ", "|", " ", "-", "-", "-", " ", "|">>,
    <<"|", ":", "-", "-", "|", "-", "-", ":", "|">> }

Groups ==
  UNION {[1..n -> GroupLines] : n \in 2..MaxGroup}

InitGroups ==
  /\ main = "markdown_to_notion_blocks"
  /\ InitPure
  /\ \E ls \in Groups, conv \in {Package(MAX_TEXT_LENGTH), Script(LinkMap)} :
       cv = [fn |-> "markdown_to_notion_blocks", pc |-> "call", conv |-> conv,
             lines |-> ls, md_content |-> join(ls, <<NL>>),
             blocks |-> <<>>, markdown |-> <<>>]

SpecGroups == InitGroups /\ [][NextBlocks]_vars


(* -------------------- the text-length limit, on its own ----------------- *)
\* bound: number of pieces of the texts longer than the limit
MaxLong == 2

Abc == <<"a", "b", "c">>
LongPieces ==
  { <<"a">>, <<" ">>, Abc,
    <<"*", "*">> \o Abc \o <<"*", "*">>,
    <<"*">> \o Abc \o <<"*">>,
    <<"~", "~">> \o Abc \o <<"~", "~">>,
    <<Backtick>> \o Abc \o <<Backtick>>,
    Link(Abc, TxtHttp),
    Link(<<"*", "*">> \o Abc \o <<"*", "*">>, TxtHttp),
    <<"[">> \o Abc }
LongTexts == {Flatten(ps) : ps \in UNION {[1..n -> LongPieces] : n \in 0..MaxLong}}

\* fenced code: an opening fence, up to two lines of code, closed or not
CodeLines == { <<>>, <<"a">>, Abc, Abc \o <<" ">>, <<"a", "b", "c", "d", "e">> }
CodeBodies ==
  { <<Fence>> \o body \o tail :
      body \in UNION {[1..n -> CodeLines] : n \in 0..MaxLong},
      tail \in {<<>>, <<Fence>>, <<Fence, Abc \o Abc>>} }

InitCut ==
  /\ InitPure
  /\ \E m \in {ShortCap, MAX_TEXT_LENGTH} :
       \/ /\ main = "parse_markdown_formatting"
          /\ \E t \in LongTexts :
               cv = [fn |-> "parse_markdown_formatting", pc |-> "call", text |-> t,
                     max_length |-> m, link_map |-> <<>>, rich_text |-> <<>>]
       \/ /\ main = "markdown_to_notion_blocks"
          /\ \E ls \in CodeBodies :
               cv = [fn |-> "markdown_to_notion_blocks", pc |-> "call",
                     conv |-> Package(m), lines |-> ls, md_content |-> join(ls, <<NL>>),
                     blocks |-> <<>>, markdown |-> <<>>]

NextCut == parse_markdown_formatting_return \/ markdown_to_notion_blocks_return

SpecCut == InitCut /\ [][NextCut]_vars


(* ------------------------------- the claims ----------------------------- *)
\* C1: make_api_request with N = retry_attempts configured attempts: when every
\* attempt is answered 429 it sends exactly N requests and then raises; when an
\* attempt K <= N succeeds it returns the response of that attempt and sends no
\* further request.
C1_RetryPolicy ==
  /\ [](/\ rq.tried <= cfg.retry_attempts
        /\ (rq.state = "FAILED" /\ rq.only_429)
             => (rq.tried = cfg.retry_attempts /\ rq.last_error = "429")
        /\ (rq.only_429 /\ rq.tried = cfg.retry_attempts)
             => rq.state \in {"REQUESTING", "RETRY_WAIT", "FAILED"}
        /\ rq.state = "SUCCESS" => (rq.tried = rq.attempt + 1 /\ ~rq.only_429))
  /\ [][/\ (rq.state = "REQUESTING" /\ rq'.state = "SUCCESS")
             => (rq'.result \in Responses(rq.req) /\ rq'.tried = rq.tried)
        /\ (rq.only_429 /\ rq.tried = cfg.retry_attempts /\ rq.state = "RETRY_WAIT")
             => rq'.state \in {"RETRY_WAIT", "FAILED"}
        /\ rq.state \in {"SUCCESS", "FAILED"} => (rq' = rq \/ rq' = NoCall)]_vars

\* a call given up after MaxAttempts requests, each answered 429
C1_Witness ==
  /\ rq.state = "FAILED" /\ rq.only_429
  /\ cfg.retry_attempts = MaxAttempts /\ rq.tried = MaxAttempts

\* C10: every call of make_api_request follows IDLE -> REQUESTING ->
\* (SUCCESS | RETRY_WAIT -> REQUESTING | FAILED): a wait is always followed by a
\* request, FAILED is entered only from a request, SUCCESS and FAILED are terminal
\* (the call ends there, the next call starting from IDLE).
C10_Transitions ==
  {<<"IDLE", "REQUESTING">>, <<"REQUESTING", "SUCCESS">>, <<"REQUESTING", "RETRY_WAIT">>,
   <<"REQUESTING", "FAILED">>, <<"RETRY_WAIT", "REQUESTING">>,
   <<"SUCCESS", "IDLE">>, <<"FAILED", "IDLE">>}

C10_StateMachine ==
  [][/\ rq'.state # rq.state => <<rq.state, rq'.state>> \in C10_Transitions
     /\ rq'.state = "IDLE" => rq'.tried = 0]_vars

\* the frames of upload_blocks_to_page, of the package and of the script
UploadFns == {"upload_blocks_to_page", "script_upload_blocks_to_page"}

\* C2: the append requests of upload_blocks_to_page carry consecutive slices of the
\* block list in its order: the batches sent so far, concatenated, are a prefix of
\* the list and, on return, the list itself; each batch is sent only when the
\* request of the batch before it has been answered and no request is under way.
C2_BatchOrder ==
  /\ [](f.fn \in UploadFns =>
          /\ Flatten(f.sent) = Take(f.blocks, Len(Flatten(f.sent)))
          /\ \A k \in 1..Len(f.sent) : f.sent[k] # <<>>
          /\ f.pc = "returned" => Flatten(f.sent) = f.blocks
          /\ f.pc \in {"loop", "sleep", "returned"} =>
                f.total_uploaded = Len(Flatten(f.sent)))
  /\ [][(f.fn \in UploadFns /\ f'.fn = f.fn /\ Len(f'.sent) > Len(f.sent)) =>
          /\ rq.req = NoReq /\ uo.state = "none"
          /\ f.total_uploaded = Len(Flatten(f.sent))
          /\ f'.sent = Append(f.sent, SubSeq(f.blocks, f.total_uploaded + 1,
                                                       Len(Flatten(f'.sent))))]_vars

\* an upload of MaxBlocks blocks that returned after more than one batch
C2_Witness ==
  /\ Running("upload_blocks_to_page", "returned")
  /\ Len(f.blocks) = MaxBlocks /\ Len(f.sent) > 1

Ceil(n, c) == (n + c - 1) \div c
\* request, sleep, request, ..., request: n requests with a sleep between each two
Paced(n) == [k \in 1..(IF n = 0 THEN 0 ELSE 2 * n - 1) |->
               IF k % 2 = 1 THEN "request" ELSE "sleep"]

\* C3: upload_blocks_to_page with N blocks and cap C issues exactly ceil(N/C) append
\* requests (none when N = 0), each of at most C blocks, and sleeps rate_limit_delay
\* after every request except the last.
C3_BatchesAndPacing ==
  (f.fn \in UploadFns /\ f.pc = "returned") =>
    /\ Len(f.sent) = Ceil(Len(f.blocks), cfg.max_blocks_per_request)
    /\ \A k \in 1..Len(f.sent) : Len(f.sent[k]) <= cfg.max_blocks_per_request
    /\ f.events = Paced(Len(f.sent))

\* the drains the claim names
DrainFns == {"get_all_blocks", "delete_all_blocks", "read_get_all_blocks"}
\* the drain is over: get_all_blocks has returned, delete_all_blocks is deleting
Drained ==
  /\ f.fn \in DrainFns
  /\ f.pc \in {"returned", "delete", "delete_call", "delete_sleep"}
PageResults(pages) == [k \in 1..Len(pages) |-> pages[k].results]

\* C4: a drain returns the results of every page of the listing, concatenated in
\* page order: the first page is asked without a cursor, every next page with the
\* next_cursor of the response before it, and the drain stops exactly at the
\* response that reports has_more false.
C4_Pagination ==
  f.fn \in DrainFns =>
    /\ \A k \in 1..Len(f.cursors) :
         f.cursors[k] = IF k = 1 THEN 0 ELSE f.pages_seen[k - 1].next_cursor
    /\ \A k \in 1..(Len(f.pages_seen) - 1) : f.pages_seen[k].has_more
    /\ Drained =>
         /\ f.pages_seen # <<>>
         /\ ~f.pages_seen[Len(f.pages_seen)].has_more
         /\ f.all_blocks = Flatten(PageResults(f.pages_seen))

\* the blocks of a list the script deletes under protection, and those it keeps
RECURSIVE Unprotected(_)
Unprotected(blocks) ==
  IF blocks = <<>> THEN <<>>
  ELSE IF Head(blocks).type \in {"child_page", "child_database", "synced_block"}
       THEN Unprotected(Tail(blocks))
       ELSE <<Head(blocks).id>> \o Unprotected(Tail(blocks))

\* C5: with protection enabled the deletion routine sends a DELETE for every
\* enumerated block that is not a child_page, child_database or synced_block, for
\* no block of these types, and reports the number of blocks of these types as
\* preserved; deleted counts the DELETEs that were answered (with one paragraph and
\* one child page: 1 deleted, 1 preserved).
C5_ProtectedDeletion ==
  (f.fn = "script_delete_all_blocks" /\ f.preserve_children) =>
    /\ f.delete_requests = Take(Unprotected(f.all_blocks), Len(f.delete_requests))
    /\ f.pc = "returned" =>
         /\ f.delete_requests = Unprotected(f.all_blocks)
         /\ f.preserved = Len(f.all_blocks) - Len(Unprotected(f.all_blocks))
         /\ f.deleted = Len(f.delete_requests) - f.ignored

\* one paragraph and one child page: 1 deleted, 1 preserved
C5_Witness ==
  /\ Running("script_delete_all_blocks", "returned") /\ f.preserve_children
  /\ Len(f.all_blocks) = 2
  /\ {f.all_blocks[k].type : k \in 1..2} = {"paragraph", "child_page"}
  /\ f.deleted = 1 /\ f.preserved = 1 /\ f.ignored = 0

\* C6: in bulk_upload a failure raised while a document is uploaded adds one to
\* failed and the loop goes on with the next document; the discovered documents
\* are taken up once each, in sorted order, and on return
\* uploaded + skipped + failed is their number.
C6_FailureIsolation ==
  /\ [](b.pc # "none" =>
          /\ b.processed = Take(b.markdown_files, Len(b.processed))
          /\ \A x, y \in 1..Len(b.markdown_files) :
               x < y => b.markdown_files[x] < b.markdown_files[y]
          /\ {b.markdown_files[k] : k \in 1..Len(b.markdown_files)}
               = {k \in 1..Len(files) : files[k] # <<>>}
          /\ b.pc \in {"loop", "sleep", "returned"} =>
               b.uploaded + b.skipped + b.failed = Len(b.processed)
          /\ b.pc = "returned" =>
               /\ b.processed = b.markdown_files
               /\ b.uploaded + b.skipped + b.failed = Len(b.markdown_files))
  /\ [][(b.pc = "uploading" /\ u.pc = "raised" /\ b' # b) =>
          /\ b'.failed = b.failed + 1
          /\ b'.uploaded = b.uploaded /\ b'.skipped = b.skipped
          /\ b'.pc = "loop" /\ b'.idx = b.idx + 1]_vars

\* a run over two documents: the first failed and stayed as it was, the second
\* was uploaded after it
C6_Witness ==
  /\ b.pc = "returned" /\ b.processed = <<1, 2>>
  /\ b.failed = 1 /\ b.uploaded = 1
  /\ files[1] = DocPlain /\ files[2] \notin BulkDocs

\* the envelope, as parse_frontmatter reads it, holds the key notion_page_id
EnvelopeHasId(text) == dict_has(parse_frontmatter(text).frontmatter, K_notion_page_id)

\* C7: in bulk_upload a document whose envelope, as parse_frontmatter reads it,
\* holds notion_page_id is counted as skipped, with no request sent and the file
\* left as it was.
C7_TaggedSkipped ==
  /\ []((b.pc = "uploading" /\ EnvelopeHasId(u.before)) =>
           (rq.req = NoReq /\ files[u.md_file] = u.before))
  /\ [][(/\ b.pc = "loop" /\ b.idx <= Len(b.markdown_files)
         /\ EnvelopeHasId(files[b.markdown_files[b.idx]])
         /\ b' # b) =>
          /\ b'.skipped = b.skipped + 1 /\ b'.idx = b.idx + 1 /\ b'.pc = "loop"
          /\ files' = files /\ rq' = rq /\ remote' = remote]_vars

\* the remote identity an envelope holds
HoldsIdentity(text) ==
  LET fm == parse_frontmatter(text).frontmatter
  IN dict_has(fm, K_notion_page_id) /\ dict_has(fm, K_notion_url)
Identity(text) ==
  LET fm == parse_frontmatter(text).frontmatter
  IN <<dict_get(fm, K_notion_page_id, <<>>), dict_get(fm, K_notion_url, <<>>)>>

\* C8: once the envelope of a document holds a remote identity, no call of
\* upload_to_notion on it, in create mode or in update mode, changes the stored
\* notion_page_id or notion_url.
C8_IdentityImmutable ==
  (u.pc # "none" /\ HoldsIdentity(u.before)) =>
    Identity(files[u.md_file]) = Identity(u.before)

\* C9: upload_to_notion rewrites the file only in create mode, once the page has
\* been created and every batch of blocks uploaded; in update mode and whenever
\* the call raises, the file is as it was when the call began.
C9_FileRewrite ==
  /\ []((u.pc # "none" /\ files[u.md_file] # u.before) =>
           /\ u.pc = "returned" /\ ~u.update_mode
           /\ PageOfId(u.page_id) \in 1..Len(remote)
           /\ u.total_uploaded = Len(u.blocks))
  /\ [][files' # files =>
          /\ u.pc = "uploading" /\ ~u.update_mode /\ u'.pc = "returned"
          /\ Running("upload_blocks_to_page", "returned")
          /\ Flatten(f.sent) = u.blocks /\ f.total_uploaded = Len(u.blocks)
          /\ PageOfId(u.page_id) \in 1..Len(remote)
          /\ \A k \in 1..Len(files) : k # u.md_file => files'[k] = files[k]]_vars

\* a create that uploaded MaxBlocks blocks and then rewrote the file
C9_Witness ==
  /\ u.pc = "returned" /\ ~u.update_mode
  /\ Len(u.blocks) = MaxBlocks /\ u.total_uploaded = MaxBlocks
  /\ files[u.md_file] # u.before
  /\ EnvelopeHasId(files[u.md_file])

\* C11: an answer with a 4xx status other than 429 is fatal: make_api_request
\* raises it to the caller at once; only 429, network failures and 5xx answers
\* are followed by a wait and another attempt.
C11_ClientErrorFatal ==
  /\ [](rq.state = "RETRY_WAIT" => rq.last_error \in {"429", "5xx", "net"})
  /\ [][(rq.state = "REQUESTING" /\ rq'.last_error = "4xx" /\ rq' # rq) =>
          rq'.state = "FAILED"]_vars

\* C13: for a document that begins with a metadata envelope whose keys and
\* values hold no colon and no newline, writing back what parse_frontmatter
\* returned (marker, "key: value" lines, marker, blank line, body) gives the
\* document again, character for character; for a document without envelope
\* parse_frontmatter returns no metadata and the document as body.
C13_EnvelopeRoundTrip ==
  /\ (cv.pc = "written" /\ cv.enveloped) => cv.text = cv.doc
  /\ (cv.pc = "parsed" /\ ~cv.enveloped) =>
       (cv.frontmatter = <<>> /\ cv.content = cv.doc)

\* the contents of the runs, concatenated
Contents(rich_text) == Flatten([k \in DOMAIN rich_text |-> rich_text[k].content])
\* a run without link and without annotation
IsPlain(run) == run = text_run(run.content)

\* C17: parse_markdown_formatting returns a sequence of runs for every text, and
\* marker characters that form no complete link, bold, italic or strikethrough
\* construct stay in the content as plain text: when no construct was
\* recognised (every run is plain) and nothing was cut by the length cap, the
\* contents concatenated are the text itself.
C17_LoneMarkersKept ==
  cv.pc = "returned" =>
    /\ Len(cv.rich_text) >= 1
    /\ (cv.max_length >= Len(cv.text) /\ \A k \in DOMAIN cv.rich_text : IsPlain(cv.rich_text[k]))
         => Contents(cv.rich_text) = cv.text

\* the places of the backticks of a text
Ticks(text) == {k \in DOMAIN text : text[k] = Backtick}
\* a text with one code span: two backticks with something between them
HasOneSpan(text) ==
  /\ Cardinality(Ticks(text)) = 2
  /\ \E p, q \in Ticks(text) : q > p + 1
SpanOpen(text) == CHOOSE p \in Ticks(text) : \A q \in Ticks(text) : p <= q
SpanClose(text) == CHOOSE q \in Ticks(text) : \A p \in Ticks(text) : p <= q
Interior(text) == SubSeq(text, SpanOpen(text) + 1, SpanClose(text) - 1)
\* the runs of a text without code span, as the formatter called makes them
Formatted(text) ==
  IF cv.fn = "parse_markdown_formatting" THEN format_part(text, 0, cv.max_length)
  ELSE script_format_part(text, 0, cv.link_map)

\* C18: the inside of a backtick-delimited code span comes out of
\* parse_markdown_formatting as one run with the code flag alone and the inside
\* of the span as content, cut at the length cap; the markers inside it are not
\* interpreted, and the text before and after the span is formatted as it
\* would be without the span.
C18_CodeSpanAtomic ==
  (cv.pc = "returned" /\ HasOneSpan(cv.text)) =>
    cv.rich_text =
      Formatted(Take(cv.text, SpanOpen(cv.text) - 1))
      \o <<[content |-> Take(Interior(cv.text), cv.max_length), link |-> None,
            code |-> TRUE, bold |-> FALSE, italic |-> FALSE, strikethrough |-> FALSE]>>
      \o Formatted(Drop(cv.text, SpanClose(cv.text)))

\* a span holding italic markers has been formatted
C18_Witness ==
  /\ cv.pc = "returned" /\ HasOneSpan(cv.text)
  /\ Interior(cv.text) = <<"*", "a", "*">>
  /\ \E k \in DOMAIN cv.rich_text : cv.rich_text[k].code

\* a destination with a scheme, as resolve_link tells it
IsAbsolute(url) ==
  \/ startswith(url, <<"h", "t", "t", "p", ":", "/", "/">>)
  \/ startswith(url, <<"h", "t", "t", "p", "s", ":", "/", "/">>)
  \/ startswith(url, <<"m", "a", "i", "l", "t", "o", ":">>)
\* a destination that is the relative path of a markdown document
IsDocumentPath(url) == ~IsAbsolute(url) /\ endswith(url, <<".", "m", "d">>)

\* C19: the run the inline formatter makes of a link [a](url): a document-relative
\* url found in the link resolution table is linked to the url the table maps it
\* to; a document-relative url the table does not hold gives the link text
\* without any link; an absolute url is kept as the link unchanged.
C19_LinkResolution ==
  \A url \in {TxtHttp, TxtMapped, TxtUnmapped} :
    (cv.pc = "returned" /\ cv.text = Link(<<"a">>, url)) =>
      /\ Len(cv.rich_text) = 1
      /\ cv.rich_text[1].content = Take(<<"a">>, cv.max_length)
      /\ IsAbsolute(url) => cv.rich_text[1].link = url
      /\ (IsDocumentPath(url) /\ dict_has(cv.link_map, url)) =>
           cv.rich_text[1].link = dict_get(cv.link_map, url, None)
      /\ (IsDocumentPath(url) /\ ~dict_has(cv.link_map, url)) =>
           cv.rich_text[1].link = None

IsTable(block) == block.type = "table"
IsParagraph(block) == block.type = "paragraph"
\* the data rows of the tables of a block list, in the order of the list
DataRows(blocks) ==
  Flatten([k \in DOMAIN SelectSeq(blocks, IsTable) |-> Tail(SelectSeq(blocks, IsTable)[k].children)])

\* C14: a table of more than MAX_TABLE_ROWS rows is emitted as table blocks that
\* each start with the header row and hold at most MAX_TABLE_ROWS rows; their
\* data rows, in the order emitted, are the data rows of the table; between
\* every two consecutive table blocks is one continuation paragraph and there
\* is no other, which makes ceil((rows-1)/(MAX_TABLE_ROWS-1)) - 1 of them; a
\* table of 150 rows gives tables of 99 and 50 data rows and one paragraph.
C14_TableSplit ==
  (cv.pc = "returned" /\ Len(cv.table_children) > MAX_TABLE_ROWS) =>
    /\ \A k \in DOMAIN cv.blocks :
         IF k % 2 = 1
         THEN /\ IsTable(cv.blocks[k])
              /\ Head(cv.blocks[k].children) = Head(cv.table_children)
              /\ Len(cv.blocks[k].children) \in 2..MAX_TABLE_ROWS
         ELSE IsParagraph(cv.blocks[k])
    /\ Len(cv.blocks) % 2 = 1
    /\ DataRows(cv.blocks) = Tail(cv.table_children)
    /\ Len(SelectSeq(cv.blocks, IsParagraph))
         = Ceil(Len(cv.table_children) - 1, MAX_TABLE_ROWS - 1) - 1
    /\ Len(cv.table_children) = 150 =>
         /\ Len(cv.blocks) = 3
         /\ Len(cv.blocks[1].children) = 100
         /\ Len(cv.blocks[3].children) = 51

\* a table of 150 rows has been split in two
C14_Witness ==
  /\ cv.pc = "returned" /\ Len(cv.table_children) = 150
  /\ Len(SelectSeq(cv.blocks, IsTable)) = 2

HasPipe(line) == find(line, <<"|">>) # -1
\* the block type the marker a line starts with stands for, "none" without marker
MarkerType(line) ==
  IF strip(line) = <<"-", "-", "-">> THEN "divider"
  ELSE IF startswith(line, <<">", " ">>) THEN "quote"
  ELSE IF startswith(line, <<"-", " ", "[">>) THEN "to_do"
  ELSE IF startswith(line, <<"-", " ">>) THEN "bulleted_list_item"
  ELSE IF numbered_match(line) > 0 THEN "numbered_list_item"
  ELSE "none"

\* C15: markdown_to_notion_blocks tests divider, quote, checklist, bulleted and
\* numbered markers before it tests for a table: a line with such a marker that
\* also holds '|' and is followed by a line holding '|' becomes the block of its
\* marker, not a table.
C15_MarkerBeforeTable ==
  (/\ cv.pc = "encoded" /\ Len(cv.lines) = 2
   /\ MarkerType(cv.lines[1]) # "none"
   /\ HasPipe(cv.lines[1]) /\ HasPipe(cv.lines[2])) =>
    /\ cv.blocks # <<>>
    /\ cv.blocks[1].type = MarkerType(cv.lines[1])

\* C16: markdown_to_notion_blocks returns a block list for every body, and a
\* group of consecutive lines holding '|' that gives no table block gives one
\* paragraph block per line: none of its lines is left out of the output.
C16_NoLineDropped ==
  (/\ cv.pc = "encoded" /\ Len(cv.lines) >= 2
   /\ \A k \in DOMAIN cv.lines : HasPipe(cv.lines[k])
   /\ \A k \in DOMAIN cv.blocks : ~IsTable(cv.blocks[k])) =>
    /\ Len(cv.blocks) = Len(cv.lines)
    /\ \A k \in DOMAIN cv.blocks : IsParagraph(cv.blocks[k])

\* a text without its whitespace
RECURSIVE Unspaced(_)
Unspaced(text) ==
  IF text = <<>> THEN <<>>
  ELSE (IF IsSpace(Head(text)) THEN <<>> ELSE <<Head(text)>>) \o Unspaced(Tail(text))
IsFenceLine(line) == startswith(line, Fence)
\* a body built only from supported constructs: lines of the constructs, a
\* fence only as a closed fenced code block, table rows only as a table with
\* its separator row
IsSupportedBody(lines) ==
  /\ \A k \in DOMAIN lines : lines[k] \in ConstructLines
  /\ (\E k \in DOMAIN lines : IsFenceLine(lines[k])) =>
       (Len(lines) = 3 /\ IsFenceLine(lines[1]) /\ ~IsFenceLine(lines[2])
        /\ lines[3] = Fence)
  /\ (\E k \in DOMAIN lines : HasPipe(lines[k])) =>
       (Len(lines) = 3 /\ HasPipe(lines[1]) /\ lines[1] = lines[3]
        /\ startswith(lines[2], <<"|", "-">>) /\ ~startswith(lines[1], <<"|", "-">>))

\* C12: for a body built only from supported constructs, the blocks made by
\* markdown_to_notion_blocks, converted back by block_to_markdown and joined as
\* download_from_notion joins them, give the body again up to whitespace.
C12_RoundTrip ==
  (cv.pc = "decoded" /\ IsSupportedBody(cv.lines)) =>
    Unspaced(cv.markdown) = Unspaced(cv.md_content)

\* the lines an iteration of the loop appended
Appended == SubSeq(cv'.d.markdown_lines, Len(cv.d.markdown_lines) + 1, Len(cv'.d.markdown_lines))
\* the block of the iteration is the first row after a table block
AtHeaderRow ==
  /\ cv.k >= 1 /\ cv.blocks[cv.k].type = "table"
  /\ cv.blocks[cv.k + 1].type = "table_row"
DashRow(num_cols) ==
  <<"|", " ">> \o join([k \in 1..num_cols |-> <<"-", "-", "-">>], <<" ", "|", " ">>) \o <<" ", "|">>

\* C20: the loop of download_from_notion appends a row of dashes of its own
\* exactly once per table, right after the first row that follows the table
\* block and with the column count of that row; for every other block it
\* appends the markdown of the block or nothing, whatever the rows hold, a row
\* of dashes in the remote data included.
C20_Separator ==
  [][(AtBlock /\ cv'.k = cv.k + 1) =>
       /\ Take(cv'.d.markdown_lines, Len(cv.d.markdown_lines)) = cv.d.markdown_lines
       /\ IF AtHeaderRow
          THEN Appended = <<block_to_markdown(cv.blocks[cv.k + 1]),
                            DashRow(Len(cv.blocks[cv.k + 1].cells))>>
          ELSE Appended \in {<<>>, <<block_to_markdown(cv.blocks[cv.k + 1])>>}]_vars

\* a table whose second row is a row of dashes in the remote data has been
\* converted: header, the row of dashes of the loop, the remote row of dashes
C20_Witness ==
  /\ cv.fn = "download_from_notion" /\ cv.pc = "joined" /\ Len(cv.blocks) = 3
  /\ cv.blocks[1].type = "table"
  /\ cv.blocks[2] = table_row(<<Cell(<<"a">>), Cell(<<"b">>)>>)
  /\ cv.blocks[3] = table_row(<<Cell(<<"-", "-", "-">>), Cell(<<"-", "-", "-">>)>>)
  /\ Len(cv.d.markdown_lines) = 3
  /\ cv.d.markdown_lines[2] = DashRow(2)

IsUnsupported(block) == block.type \in {"embed", "video"}
\* the markdown of the blocks that have some, in the order of the blocks
RECURSIVE Rendered(_)
Rendered(blocks) ==
  IF blocks = <<>> THEN <<>>
  ELSE (IF block_to_markdown(Head(blocks)) = <<>> THEN <<>>
        ELSE <<block_to_markdown(Head(blocks))>>) \o Rendered(Tail(blocks))
\* the comment that names a type
Placeholder(type) ==
  <<"<", "!", "-", "-", " ", "U", "n", "s", "u", "p", "p", "o", "r", "t", "e", "d", " ",
    "b", "l", "o", "c", "k", " ", "t", "y", "p", "e", ":", " ">>
    \o (IF type = "embed" THEN <<"e", "m", "b", "e", "d">> ELSE <<"v", "i", "d", "e", "o">>)
    \o <<" ", "-", "-", ">">>

\* C21: a block of a type the decoder does not know never stops the conversion
\* loop: the iteration on it appends one comment that names its type and the
\* loop goes on with the next block; the lines of a page without table rows
\* are the markdown of each of its blocks, unknown ones included, in the order
\* of the page.
C21_UnknownBlocks ==
  /\ [][(AtBlock /\ IsUnsupported(cv.blocks[cv.k + 1])) =>
          /\ cv'.pc = "loop" /\ cv'.k = cv.k + 1
          /\ cv'.d.markdown_lines
               = Append(cv.d.markdown_lines, Placeholder(cv.blocks[cv.k + 1].type))]_vars
  /\ []((/\ cv.fn = "download_from_notion" /\ cv.pc = "joined"
         /\ \A k \in DOMAIN cv.blocks : cv.blocks[k].type # "table_row")
        => cv.d.markdown_lines = Rendered(cv.blocks))

\* a page with an unknown block between two paragraphs has been converted
C21_Witness ==
  /\ cv.fn = "download_from_notion" /\ cv.pc = "joined" /\ Len(cv.blocks) = 3
  /\ cv.blocks[1].type = "paragraph" /\ cv.blocks[3].type = "divider"
  /\ IsUnsupported(cv.blocks[2])
  /\ Len(cv.d.markdown_lines) = 3

\* the rows of the tables of a block list: the header of the first table, then
\* the data rows of every table
EmittedRows(blocks) ==
  IF SelectSeq(blocks, IsTable) = <<>> THEN <<>>
  ELSE <<Head(SelectSeq(blocks, IsTable)[1].children)>> \o DataRows(blocks)
\* the cells of the lines of a group that are rows, as the table branch reads them
ParsedRows == table_rows([k \in DOMAIN cv.lines |-> strip(cv.lines[k])])

\* C28: every table block made of a group of lines has for table_width the
\* number of cells of the first row parsed, and every row of it, in every part
\* of the table, has table_width cells: the cells of the parsed row, cut
\* after table_width cells, and empty cells where the parsed row is shorter.
C28_TableWidth ==
  (cv.pc = "encoded" /\ \A k \in DOMAIN cv.lines : HasPipe(cv.lines[k])) =>
    /\ \A k \in DOMAIN cv.blocks :
         IsTable(cv.blocks[k]) =>
           /\ cv.blocks[k].table_width = Len(ParsedRows[1])
           /\ \A r \in DOMAIN cv.blocks[k].children :
                Len(cv.blocks[k].children[r].cells) = cv.blocks[k].table_width
    /\ Len(EmittedRows(cv.blocks)) \in {0, Len(ParsedRows)}
    /\ \A j \in DOMAIN EmittedRows(cv.blocks) :
         \A c \in DOMAIN EmittedRows(cv.blocks)[j].cells :
           EmittedRows(cv.blocks)[j].cells[c] =
             IF c <= Len(ParsedRows[j]) THEN rich(ParsedRows[j][c], cv.conv)
             ELSE <<text_run(<<>>)>>

\* a table whose second row is shorter and whose third row is longer than the
\* first has been made
C28_Witness ==
  /\ cv.pc = "encoded" /\ Len(cv.blocks) = 1 /\ IsTable(cv.blocks[1])
  /\ cv.lines = << <<"|", "a", "|", "b", "|">>, <<"|", "a", "|">>,
                   <<"|", "a", "|", "b", "|", "c", "|">> >>
  /\ cv.blocks[1].table_width = 2 /\ Len(cv.blocks[1].children) = 3

\* a line made of pipes, dashes, colons and spaces only
IsSeparatorLine(line) == \A k \in DOMAIN line : line[k] \in {"|", "-", ":", " "}
IsRowLine(line) == ~IsSeparatorLine(line)

\* C29: a group of contiguous lines that hold '|' is made into one table, and
\* the rows of that table are the lines of the group that are not made of
\* separator punctuation only: a divider row, written with or without spaces
\* or colons, is not emitted as a table_row.
C29_SeparatorDropped ==
  (cv.pc = "encoded" /\ \A k \in DOMAIN cv.lines : HasPipe(cv.lines[k])) =>
    /\ Len(cv.blocks) <= 1
    /\ \A k \in DOMAIN cv.blocks : IsTable(cv.blocks[k])
    /\ Len(EmittedRows(cv.blocks)) = Len(SelectSeq(cv.lines, IsRowLine))

\* the runs of a rich text, each cut to its first n characters
CutRuns(rich_text, n) ==
  [k \in DOMAIN rich_text |-> [rich_text[k] EXCEPT !.content = Take(@, n)]]

\* C30: no run returned by parse_markdown_formatting and no text of a code
\* block returned by markdown_to_notion_blocks is longer than max_text_length;
\* the runs are those the same input gives with a limit no content reaches,
\* each cut to its first max_text_length characters, so content within the
\* limit is unchanged.
C30_TextLimit ==
  /\ (cv.fn = "parse_markdown_formatting" /\ cv.pc = "returned") =>
       /\ \A k \in DOMAIN cv.rich_text : Len(cv.rich_text[k].content) <= cv.max_length
       /\ cv.rich_text =
            CutRuns(parse_markdown_formatting(cv.text, Len(cv.text) + 1), cv.max_length)
  /\ (cv.fn = "markdown_to_notion_blocks" /\ cv.pc = "encoded") =>
       \A k \in DOMAIN cv.blocks :
         cv.blocks[k].type = "code" =>
           /\ Len(cv.blocks[k].rich_text) = 1
           /\ Len(cv.blocks[k].rich_text[1].content) <= cv.conv.max_text_length
           /\ cv.blocks[k].rich_text =
                CutRuns(markdown_to_notion_blocks(cv.md_content,
                                                  Package(Len(cv.md_content) + 1))[k].rich_text,
                        cv.conv.max_text_length)

\* a link whose text is longer than the limit has been cut, and so has the
\* text of a code block
C30_Witness ==
  \/ /\ cv.fn = "parse_markdown_formatting" /\ cv.pc = "returned"
     /\ cv.max_length = ShortCap /\ cv.text = Link(Abc, TxtHttp)
     /\ cv.rich_text[1].content = Take(Abc, ShortCap)
     /\ cv.rich_text[1].link = TxtHttp
  \/ /\ cv.fn = "markdown_to_notion_blocks" /\ cv.pc = "encoded"
     /\ cv.conv.max_text_length = ShortCap
     /\ cv.lines = <<Fence, Abc, <<"a">>, Fence>>
     /\ cv.blocks[1].rich_text[1].content = Take(Abc, ShortCap)

\* C26: in make_api_request the sleep after a 429 answer to attempt a (counted
\* from 0) is retry_delay * (a + 1), the sleep after any other failure that is
\* retried is retry_delay, and no call sends more than retry_attempts requests,
\* whatever the answers are. The waits are in units of retry_delay.
C26_Backoff ==
  /\ [][(rq.state = "REQUESTING" /\ rq'.state = "RETRY_WAIT") =>
          rq'.wait = IF rq'.last_error = "429" THEN rq.attempt + 1 ELSE 1]_vars
  /\ [](rq.tried <= cfg.retry_attempts /\ rq.attempt <= cfg.retry_attempts)

\* a call whose first attempt failed otherwise and whose second attempt was
\* answered 429 sleeps twice retry_delay
C26_Witness ==
  /\ rq.state = "RETRY_WAIT" /\ rq.last_error = "429"
  /\ rq.attempt = 2 /\ rq.wait = 2 /\ ~rq.only_429

\* event lists that start with a request and have one sleep between every two
\* consecutive requests, and nothing after the last request
IsPacedDrain(events) ==
  /\ Len(events) % 2 = 1
  /\ \A k \in DOMAIN events : events[k] = IF k % 2 = 1 THEN "request" ELSE "sleep"

\* C27: when get_all_blocks has returned, and when the enumeration of
\* delete_all_blocks is over, the page requests of the drain were each
\* separated from the next by one sleep of rate_limit_delay, and no sleep
\* followed the request of the last page.
C27_DrainPacing ==
  (/\ f.fn \in {"get_all_blocks", "delete_all_blocks"}
   /\ f.pc \in {"delete", "returned"}) =>
    IsPacedDrain(f.events)

\* the number of pages the listing of a list of children has
PagesOf(children) ==
  IF children = <<>> THEN 1 ELSE (Len(children) + PageSize - 1) \div PageSize

\* C25: while get_all_blocks or delete_all_blocks drains the listing, no page
\* is requested twice (the cursors of the requests of the drain are all
\* different) and the drain has sent no more requests than the listing has
\* pages, also when a response reported has_more with no next_cursor.
C25_DrainProgress ==
  (/\ f.fn \in {"get_all_blocks", "delete_all_blocks"}
   /\ f.pc \in {"drain", "drain_call", "drain_sleep"}
   /\ f.page_id \in 1..Len(remote)) =>
    /\ \A j, k \in DOMAIN f.cursors : j # k => f.cursors[j] # f.cursors[k]
    /\ Len(f.cursors) <= PagesOf(remote[f.page_id])

\* the blocks of a remote page that were appended from a list of blocks, by the
\* block of the list each was made of
IsAppended(block) == block.src # 0
AppendedFrom(children) ==
  [k \in DOMAIN SelectSeq(children, IsAppended) |-> SelectSeq(children, IsAppended)[k].src]

\* C22: when upload_blocks_to_page has returned, the remote page holds every
\* block of the list once, in the order of the list, whatever answers were lost
\* or failed and retried on the way.
C22_ExactlyOnce ==
  (Running("upload_blocks_to_page", "returned") /\ f.page_id \in 1..Len(remote)) =>
    AppendedFrom(remote[f.page_id]) = f.blocks

\* C24: when upload_to_notion has returned in update mode, the children of the
\* remote page are the blocks encoded from the document, in order, and no block
\* the page held before is left; when delete_all_blocks of the script has
\* returned, the only blocks left on the page are those it preserves. Both
\* whatever answers the DELETE requests got.
C24_UpdateReplaces ==
  /\ (u.pc = "returned" /\ u.update_mode) =>
       /\ \A k \in DOMAIN remote[PageOfId(u.page_id)] :
            IsAppended(remote[PageOfId(u.page_id)][k])
       /\ AppendedFrom(remote[PageOfId(u.page_id)]) = u.blocks
  /\ (Running("script_delete_all_blocks", "returned") /\ f.page_id \in 1..Len(remote)) =>
       \A k \in DOMAIN remote[f.page_id] :
         IsPreserved(remote[f.page_id][k], f.preserve_children)

\* the pages the runs of bulk_upload have created: the service started with one
PagesCreated == Len(remote) - 1

\* C23: over the runs of bulk_upload on a directory the service never holds more
\* pages created by them than the directory holds documents, as it must when
\* no document gets a second page, whatever failed after a page was created.
C23_OnePagePerDocument ==
  main = "bulk_upload" => PagesCreated <= Len(files)


====
